---- MODULE Spec2Model ----
(***************************************************************************)
(* Model of the per-court actor / registry subsystem of SitzungsterminBot: *)
(* the registry (Courts, CourtRef), the court worker (CourtWorker), the    *)
(* SQLite store (Database) as seen by the worker, the scraper as an        *)
(* external call, and the rate-limited reply queue (ReplyQueue).           *)
(***************************************************************************)
EXTENDS Integers, Sequences, FiniteSets, TLC

(***************************************************************************)
(* Bounds of the model                                                     *)
(***************************************************************************)
MaxMsgs == 2
MaxTasks == 3
MaxActors == 3
MaxNow == 32
MaxTicks == 1
MaxDbErrors == 1
MaxItems == 21
MaxTime == 1

(***************************************************************************)
(* Program constants                                                       *)
(***************************************************************************)
\* worker.rs: TRESHOLD_TIME = 08:00, in hours of the local day
TRESHOLD_TIME == 8
HoursPerDay == 24
\* courts/mod.rs: "^[a-zA-Z0-9\\-]{1,63}$"
NameMinLen == 1
NameMaxLen == 63
\* reply_queue.rs: recv_many(&mut buffer, 20)
BatchLimit == 20
\* messages.rs: Paginator::new(20, 4096, "\n\n")
ItemLimit == 20
CharLimit == 4096
JoinLen == 2
\* messages.rs: page_nr(999, 999).len_parsed()
PageNrMaxLen == 19

(***************************************************************************)
(* Characters and court names                                              *)
(***************************************************************************)
LowerChars == {"a","b","c","d","e","f","g","h","i","j","k","l","m",
               "n","o","p","q","r","s","t","u","v","w","x","y","z"}
UpperChars == {"A","B","C","D","E","F","G","H","I","J","K","L","M",
               "N","O","P","Q","R","S","T","U","V","W","X","Y","Z"}
DigitChars == {"0","1","2","3","4","5","6","7","8","9"}

\* the character class [a-zA-Z0-9\-]
NameCharClass == LowerChars \cup UpperChars \cup DigitChars \cup {"-"}

\* anchored match of [class]{min,max}: consume one character at a time
RECURSIVE RepeatMatch(_, _, _)
RepeatMatch(s, i, n) ==
    IF i > Len(s)
    THEN n >= NameMinLen
    ELSE /\ n < NameMaxLen
         /\ s[i] \in NameCharClass
         /\ RepeatMatch(s, i + 1, n + 1)

\* the pattern without its length bound: ^[a-zA-Z0-9\-]+$
COURT_NAME_REGEX_unbounded(s) ==
    Len(s) >= 1 /\ \A i \in 1..Len(s) : s[i] \in NameCharClass

COURT_NAME_REGEX(s) == RepeatMatch(s, 1, 0)

NameVG == <<"v", "g", "-", "1">>
Name63 == [i \in 1..63 |-> "a"]
Name64 == [i \in 1..64 |-> "a"]
NameEmpty == <<>>
NameUnderscore == <<"v", "g", "_">>
NameAG == <<"a", "g", "-", "2">>

\* the names callers pass to Courts::get
NameInputs == {NameVG, Name64, NameEmpty, NameUnderscore}

\* the keys of the tables courts and sessions
CourtNames == NameInputs \cup {NameAG}

(***************************************************************************)
(* Sessions, scraper results, subscriptions                                *)
(***************************************************************************)
Date1 == [y |-> 2025, m |-> 2, d |-> 1]
Date2 == [y |-> 2025, m |-> 2, d |-> 3]

Session(date, reference, note) ==
    [date |-> date, time |-> "09:00", type |-> "mV", lawsuit |-> "",
     hall |-> "1", reference |-> reference, note |-> note]

SessA == Session(Date1, <<"1", "K">>, "")
SessB == Session(Date2, <<"2", "K">>, "")
\* equal to SessA except for the note
SessC == Session(Date1, <<"1", "K">>, "verlegt")

FullName == "VG"
FullNameLen == 2
None == "None"

ScrapeFail == [ok |-> FALSE, full_name |-> None, sessions |-> <<>>]
ScrapeOk(sessions) == [ok |-> TRUE, full_name |-> FullName, sessions |-> sessions]

\* outcomes of scraper::get_court_data
ScrapeOutcomes ==
    {ScrapeFail, ScrapeOk(<<SessA, SessB>>), ScrapeOk(<<SessA, SessB, SessC>>)}

SubIds == {1, 2}
\* rows of table subscriptions (static columns); name is given by its length
SubRow(s) ==
    IF s = 1
    THEN [subscription_id |-> 1, chat_id |-> 101, court |-> NameVG,
          name_len |-> 4, reference_filter |-> <<"*">>]
    ELSE [subscription_id |-> 2, chat_id |-> 102, court |-> NameVG,
          name_len |-> 4090, reference_filter |-> <<"1", "?">>]

NoMeta == [present |-> FALSE, full_name |-> None, last_update |-> 0]
CourtMeta(full_name, last_update) ==
    [present |-> TRUE, full_name |-> full_name, last_update |-> last_update]

(***************************************************************************)
(* messages.rs: ReferenceFilter                                            *)
(***************************************************************************)
\* regex::escape(s).replace("\*", ".*").replace("\?", "."), anchored:
\* "*" is ".*", "?" is ".", every other character is a literal;
\* "." does not match a line feed
RECURSIVE GlobMatch(_, _, _, _)
GlobMatch(p, i, r, j) ==
    IF i > Len(p)
    THEN j > Len(r)
    ELSE IF p[i] = "*"
         THEN \/ GlobMatch(p, i + 1, r, j)
              \/ /\ j <= Len(r)
                 /\ r[j] # "\n"
                 /\ GlobMatch(p, i, r, j + 1)
         ELSE /\ j <= Len(r)
              /\ IF p[i] = "?" THEN r[j] # "\n" ELSE r[j] = p[i]
              /\ GlobMatch(p, i + 1, r, j + 1)

ReferenceFilterMatches(filter, reference) == GlobMatch(filter, 1, reference, 1)

(***************************************************************************)
(* messages.rs: Paginator, first push                                      *)
(***************************************************************************)
\* try_push_to_current_page on an empty page whose length is page_len
FitsPage(page_len, item_len) == page_len + JoinLen + item_len < CharLimit

\* Paginator::push of the first item: Ok iff it fits the current page or
\* a fresh page
PushFirstOk(item_len) ==
    FitsPage(0, item_len) \/ FitsPage(PageNrMaxLen, item_len)

Digits(n) == IF n < 10 THEN 1 ELSE 2

\* byte length of the prefix built in sessions_updated
SessionsUpdatedPrefixLen(name_len, full_len, n) ==
    31 + name_len + (IF n = 1 THEN 54 ELSE 52 + Digits(n)) + full_len

\* byte length of the prefix built in subscribed when items exist
SubscribedPrefixLen(name_len) == 16 + name_len + 32 + 50

\* byte length of the prefix built in list_sessions_prefix
ListSessionsPrefixLen(full_len, n) ==
    IF n = 0 THEN 40 + full_len + 40
    ELSE IF n = 1 THEN 30 + full_len + 10
    ELSE 31 + Digits(n) + full_len + 10

(***************************************************************************)
(* worker.rs: staleness                                                    *)
(***************************************************************************)
\* a staleness test that calls every cached reading stale
is_out_of_date_always(last_update, t) == TRUE

\* chrono_tz::Europe::Berlin. An instant is a number of hours since the
\* midnight, in standard time, that begins day 0 (Utc differs from it by a
\* constant). Summer time lasts from DstBegin to DstEnd: the clocks go
\* from 02:00 to 03:00 on day 2 and from 03:00 back to 02:00 on day 5.
DstBegin == 2 * HoursPerDay + 2
DstEnd == 5 * HoursPerDay + 2

DstOffset(t) == IF t >= DstBegin /\ t < DstEnd THEN 1 ELSE 0

\* with_timezone: the local date and time shown at instant t, as hours
\* since the local midnight that begins day 0
with_timezone(t) == t + DstOffset(t)

\* and_local_timezone: the instants at which the local clock shows l
\* (none in the gap of the spring, two in the overlap of the autumn)
and_local_timezone(l) == {u \in (l - 1)..l : with_timezone(u) = l}

\* a choice of the date that always takes today
CutoffDate_today(time, today) == today

\* the date of the treshold: yesterday before TRESHOLD_TIME, else today
CutoffDate(time, today) == IF time < TRESHOLD_TIME THEN today - 1 ELSE today

\* the candidates of treshold at instant t, before single()
treshold(t) ==
    LET local == with_timezone(t)
        date == CutoffDate(local % HoursPerDay, local \div HoursPerDay)
    IN  and_local_timezone(date * HoursPerDay + TRESHOLD_TIME)

\* single().expect("Weird DST issues") panics
is_out_of_date_panics(t) == Cardinality(treshold(t)) # 1

\* is_out_of_date, with now passed in
is_out_of_date(last_update, t) == \E u \in treshold(t) : last_update < u

(***************************************************************************)
(* Dates of GetSessions                                                    *)
(***************************************************************************)
DateStar == [star |-> TRUE, d |-> 0, m |-> 0, y |-> 0]
DateStr(d, m, y) == [star |-> FALSE, d |-> d, m |-> m, y |-> y]

\* the date strings callers pass: "*", "01.02.2025", "31.02.2025"
DateInputs == {DateStar, DateStr(1, 2, 2025), DateStr(31, 2, 2025)}

DaysInMonth(m, y) ==
    IF m = 2
    THEN (IF y % 4 = 0 /\ (y % 100 # 0 \/ y % 400 = 0) THEN 29 ELSE 28)
    ELSE IF m \in {4, 6, 9, 11} THEN 30 ELSE 31

\* NaiveDate::parse_from_str(&date, "%d.%m.%Y")
ParseDate(s) ==
    IF s.m \in 1..12 /\ s.d >= 1 /\ s.d <= DaysInMonth(s.m, s.y)
    THEN [ok |-> TRUE, date |-> [y |-> s.y, m |-> s.m, d |-> s.d]]
    ELSE [ok |-> FALSE, date |-> [y |-> 0, m |-> 0, d |-> 0]]

(***************************************************************************)
(* Messages of the mailbox and replies                                     *)
(***************************************************************************)
Msg(type, id, force, date, reference, sub) ==
    [type |-> type, id |-> id, force |-> force, date |-> date,
     reference |-> reference, sub |-> sub]

NoMsg == Msg("None", 0, FALSE, DateStar, <<>>, 0)
MsgUpdate(id, force) == Msg("Update", id, force, DateStar, <<>>, 0)
MsgGetSessions(id, date, reference) ==
    Msg("GetSessions", id, FALSE, date, reference, 0)
MsgConfirmSubscription(id, sub) ==
    Msg("ConfirmSubscription", id, FALSE, DateStar, <<>>, sub)
MsgClose == Msg("Close", 0, FALSE, DateStar, <<>>, 0)
\* the auto_update branch of the select, handled as handle_update(false)
MsgTick == Msg("Tick", 0, FALSE, DateStar, <<>>, 0)

Reply(kind, items) == [kind |-> kind, items |-> items]
NoReply == Reply("none", <<>>)
\* a panic while rendering
Panic == Reply("panic", <<>>)

invalid_date == Reply("invalid_date", <<>>)
internal_error == Reply("internal_error", <<>>)

MatchingItems(sessions, filter) ==
    SelectSeq(sessions, LAMBDA x : ReferenceFilterMatches(filter, x.reference))

\* messages::list_sessions; data.ok = FALSE is the None case
list_sessions(data, reference) ==
    IF ~data.ok
    THEN Reply("no_info", <<>>)
    ELSE LET items == MatchingItems(data.sessions, reference)
         IN  IF PushFirstOk(ListSessionsPrefixLen(FullNameLen, Len(items)))
             THEN Reply("sessions", items)
             ELSE Panic

\* messages::subscribed
subscribed(name_len, data, reference) ==
    IF ~data.ok
    THEN Reply("subscribed_unreachable", <<>>)
    ELSE LET items == MatchingItems(data.sessions, reference)
         IN  IF Len(items) = 0
             THEN Reply("subscribed", <<>>)
             ELSE IF PushFirstOk(SubscribedPrefixLen(name_len))
                  THEN Reply("subscribed", items)
                  ELSE Panic

SeqToSet(seq) == {seq[i] : i \in DOMAIN seq}

\* a sessions_updated that does not leave out the old sessions
sessions_updated_all(old_sessions, new_sessions, name_len, reference_filter) ==
    LET items == MatchingItems(new_sessions, reference_filter)
    IN  IF Len(items) = 0
        THEN NoReply
        ELSE IF PushFirstOk(SessionsUpdatedPrefixLen(name_len, FullNameLen, Len(items)))
             THEN Reply("sessions_updated", items)
             ELSE Panic

\* messages::sessions_updated: the new sessions that match the filter and
\* are not among the old ones; none gives no message
sessions_updated(old_sessions, new_sessions, name_len, reference_filter) ==
    LET old == SeqToSet(old_sessions)
        items == SelectSeq(new_sessions,
                     LAMBDA x : /\ ReferenceFilterMatches(reference_filter, x.reference)
                                /\ x \notin old)
    IN  IF Len(items) = 0
        THEN NoReply
        ELSE IF PushFirstOk(SessionsUpdatedPrefixLen(name_len, FullNameLen, Len(items)))
             THEN Reply("sessions_updated", items)
             ELSE Panic

(***************************************************************************)
(* State                                                                   *)
(***************************************************************************)
VARIABLES
    now,          \* Utc::now(), in hours
    dbMeta,       \* table courts: name -> meta row or NoMeta
    dbSessions,   \* table sessions: name -> rows
    dbSubs,       \* table subscriptions: id -> none | unconfirmed | confirmed | removed
    map,          \* Courts.map: name -> actor id, on the registered names
    rqHeld,       \* Courts.reply_queue not yet dropped
    mainPc,       \* running | awaiting (shutdown awaits the queue task) | returned
    actors,       \* actor id -> worker task and its channel
    nextActor,    \* id of the next worker to be created
    nextMsg,      \* id of the next request message
    queue,        \* channel of the ReplyQueue
    buffer,       \* buffer of the ReplyQueue task
    dispPc,       \* recv | send | tick | done
    sent,         \* what the ReplyQueue task handed to the bot, in order
    replies,      \* message id -> replies given through reply_fn
    ticks,        \* auto_update ticks that fired
    dbErrs,       \* database errors that occurred
    scrapes,      \* name -> calls of scraper::get_court_data
    accepted,     \* actor id -> ids of the messages its channel accepted
    started,      \* actor id -> ids of the messages whose handling began
    completed,    \* actor id -> ids of the messages whose handling ended
    enqueued,     \* what was passed to ReplyQueue::queue, in order
    lastScrape,   \* the last result the scraper returned
    notifiedLive, \* subscription -> sessions it was notified of that
                  \* no successful scrape since has lacked
    \* court/database.rs: one call of Database::execute_with_retry
    attempt,      \* the local attempt
    redis_conn,   \* Database.redis_conn is Some
    rtPc,         \* idle | loop | sleep | returned
    rtHist,       \* the result of every pass of the loop, in order
    rtSlept,      \* the backoffs slept, in milliseconds, in order
    rtResult,     \* what the call returned
    \* messages.rs: one Paginator
    item_limit,
    char_limit,
    pages,        \* Paginator.pages: pages of item lengths
    current_page,
    current_page_len,
    pushResults,  \* what each call of push returned, in order
    \* reply_queue.rs: the queue task with its interval timer
    rqNow,        \* the clock of the runtime, in periods of the interval
    rqDeadline,   \* the instant of the next tick of the interval
    sentAt,       \* when each entry of sent was handed to the bot
    firstSendErr, \* whether the first delivery of the queue task failed
    \* calls of the pure functions is_out_of_date and ReferenceFilter::matches
    staleArgs,    \* the arguments of the last call of is_out_of_date
    staleRes,     \* what it returned
    filterArgs,   \* the filter and the reference of the last call of matches
    filterRes,    \* what it returned
    \* court_map.rs: one CourtMap and the tasks that call get on it
    courts,       \* CourtMap.courts: name -> Court (id of its worker)
    spawned,      \* the name of every worker Court::new spawned, in order
    getPc,        \* task -> idle | read | insert | returned
    getName,      \* task -> the name it called get with
    getCourt      \* task -> the Court it holds or was returned (0: None)

retryVars == <<attempt, redis_conn, rtPc, rtHist, rtSlept, rtResult>>
pagerVars == <<item_limit, char_limit, pages, current_page, current_page_len,
               pushResults>>
timerVars == <<rqNow, rqDeadline, sentAt, firstSendErr>>
Tasks == 1..MaxTasks

fnVars == <<staleArgs, staleRes, filterArgs, filterRes>>
mapVars == <<courts, spawned, getPc, getName, getCourt>>

\* the registry, the workers, the store and the queue
sysVars == <<now, dbMeta, dbSessions, dbSubs, map, rqHeld, mainPc, actors,
             nextActor, nextMsg, queue, buffer, dispPc, sent, replies, ticks,
             dbErrs, scrapes, accepted, started, completed, enqueued,
             lastScrape, notifiedLive>>

vars == <<sysVars, retryVars, pagerVars, timerVars, fnVars, mapVars>>

ActorIds == 1..MaxActors
MsgIds == 1..MaxMsgs

NoActor ==
    [name |-> <<>>, pc |-> "none", mailbox |-> <<>>, rxClosed |-> FALSE,
     txAlive |-> FALSE, cur |-> NoMsg, last_update |-> 0, inflight |-> 0]

\* CourtRef::create: a fresh channel and a spawned worker in its select
NewActor(name) ==
    [NoActor EXCEPT !.name = name, !.pc = "idle", !.txAlive = TRUE]

Finish(w) ==
    [w EXCEPT !.pc = "idle", !.cur = NoMsg, !.last_update = 0,
              !.inflight = @ - 1]

\* a panic unwinds the task: receiver and ReplyQueue clone are dropped
Panicked(w) ==
    [w EXCEPT !.pc = "panicked", !.mailbox = <<>>, !.rxClosed = TRUE,
              !.cur = NoMsg, !.last_update = 0, !.inflight = 0]

\* the task exists and has not terminated
Running(w) == w.pc \notin {"none", "exited", "panicked"}

\* UnboundedSender::send succeeds: receiver neither closed nor dropped
ChannelOpen(w) == Running(w) /\ ~w.rxClosed

\* a run that polls the select while a handler is still awaiting
Receivable_spawned(w) == w.pc \in {"idle", "scrape"}

\* the select of run is polled only between two handlers
Receivable(w) == w.pc = "idle"

\* a receiver that yields the newest message
NextMessage_newest(mailbox) == mailbox[Len(mailbox)]

\* message_rx.recv() yields the oldest message
NextMessage(mailbox) == Head(mailbox)
RestMessages(mailbox) == Tail(mailbox)

\* message_rx.recv() yields None: closed (or no sender left) and empty
RecvNone(w) == w.mailbox = <<>> /\ (w.rxClosed \/ ~w.txAlive)

(***************************************************************************)
(* The database as one value, and the calls a handler makes on it          *)
(***************************************************************************)
Db == [meta |-> dbMeta, sessions |-> dbSessions, subs |-> dbSubs]

\* the database calls of the worker; a handler run may fail at one of them
DbCalls == {"get_subscription_by_id", "get_court_meta", "old_sessions",
            "get_confirmed_subscriptions_by_court", "update_court_data",
            "get_sessions", "set_subscription_confirmation_sent"}

\* what a stretch of a handler between two scheduling points did:
\* the worker, the database, the notifications queued, the replies given
\* through reply_fn, and the database calls made
Res(w, db, out, rep, calls) ==
    [w |-> w, db |-> db, out |-> out, rep |-> rep, calls |-> calls]

\* Database::get_sessions with the date filter
get_sessions(db, name, date_filter) ==
    IF date_filter.star
    THEN db.sessions[name]
    ELSE SelectSeq(db.sessions[name],
                   LAMBDA x : x.date = ParseDate(date_filter).date)

\* Database::set_subscription_confirmation_sent: UPDATE ... WHERE id
set_subscription_confirmation_sent(db, sub) ==
    IF db.subs[sub] \in {"unconfirmed", "confirmed"}
    THEN [db EXCEPT !.subs[sub] = "confirmed"]
    ELSE db

\* a variant that keeps the stored rows and adds the new ones
ReplaceSessions_merging(old_rows, sessions) == old_rows \o sessions

\* update_court_info with a schedule: DELETE FROM sessions WHERE court,
\* then one INSERT per session
ReplaceSessions(old_rows, sessions) == sessions

\* a variant that empties the stored sessions when no schedule is given
update_court_data_clearing(db, name, meta, new_data) ==
    [db EXCEPT !.meta[name] = meta,
               !.sessions[name] = IF new_data.ok THEN new_data.sessions ELSE <<>>]

\* Database::update_court_info: one transaction; the sessions are
\* replaced only when a schedule is given
update_court_data(db, name, meta, new_data) ==
    [db EXCEPT !.meta[name] = meta,
               !.sessions[name] = IF new_data.ok
                                  THEN ReplaceSessions(@, new_data.sessions)
                                  ELSE @]

\* a query that selects the confirmed subscriptions of every court
ConfirmedOfCourt_any_court(db, court, s) == db.subs[s] = "confirmed"

\* WHERE court = ? AND confirmation_sent != 0
ConfirmedOfCourt(db, court, s) ==
    db.subs[s] = "confirmed" /\ SubRow(s).court = court

\* rows of get_confirmed_subscriptions_by_court, in id order
RECURSIVE ConfirmedFrom(_, _, _)
ConfirmedFrom(db, court, s) ==
    IF s \notin SubIds
    THEN <<>>
    ELSE (IF ConfirmedOfCourt(db, court, s)
          THEN <<s>> ELSE <<>>) \o ConfirmedFrom(db, court, s + 1)

get_confirmed_subscriptions_by_court(db, court) == ConfirmedFrom(db, court, 1)

Notification(sub, msg) ==
    [chat_id |-> SubRow(sub).chat_id, sub |-> sub, msg |-> msg]

\* the for loop of process_new_data: what it queues, and whether
\* rendering panicked on the way
RECURSIVE NotifyLoop(_, _, _, _)
NotifyLoop(subs, old_sessions, new_sessions, acc) ==
    IF subs = <<>>
    THEN [msgs |-> acc, panicked |-> FALSE]
    ELSE LET sub == Head(subs)
             msg == sessions_updated(old_sessions, new_sessions,
                                     SubRow(sub).name_len,
                                     SubRow(sub).reference_filter)
         IN  IF msg = Panic
             THEN [msgs |-> acc, panicked |-> TRUE]
             ELSE NotifyLoop(Tail(subs), old_sessions, new_sessions,
                             IF msg = NoReply THEN acc
                             ELSE Append(acc, Notification(sub, msg)))

(***************************************************************************)
(* worker.rs: the handlers of CourtWorker, from one scheduling point       *)
(* (the select of run, the scraper call) to the next; fail names the       *)
(* database call that returns an error, if any                             *)
(***************************************************************************)
\* run: the handler returned (after reply_fn.reply, if there is a reply)
Done(w, db, out, rep, calls) == Res(Finish(w), db, out, rep, calls)

\* a variant that gives the rendered reply and then the error message
MarkSent_both(w, db, out, reply, calls, fail) ==
    LET calls2 == calls \cup {"set_subscription_confirmation_sent"}
    IN  IF fail = "set_subscription_confirmation_sent"
        THEN Done(w, db, out, <<reply, internal_error>>, calls2)
        ELSE Done(w, set_subscription_confirmation_sent(db, w.cur.sub),
                  out, <<reply>>, calls2)

\* handle_confirm_subscription after the reply was rendered
MarkSent(w, db, out, reply, calls, fail) ==
    LET calls2 == calls \cup {"set_subscription_confirmation_sent"}
    IN  IF fail = "set_subscription_confirmation_sent"
        THEN Done(w, db, out, <<internal_error>>, calls2)
        ELSE Done(w, set_subscription_confirmation_sent(db, w.cur.sub),
                  out, <<reply>>, calls2)

\* a variant that marks the confirmation as sent although the update failed
AfterUpdateErr_marking(w, db, out, calls) ==
    IF w.cur.type = "ConfirmSubscription"
    THEN Done(w, set_subscription_confirmation_sent(db, w.cur.sub), out,
              <<internal_error>>, calls)
    ELSE Done(w, db, out, <<>>, calls)

\* update returned Err: handle_update logs, the others answer internal_error
AfterUpdateErr(w, db, out, calls) ==
    IF w.cur.type \in {"Update", "Tick"}
    THEN Done(w, db, out, <<>>, calls)
    ELSE Done(w, db, out, <<internal_error>>, calls)

\* a get_court_data that reads the sessions whatever the meta says
HasFullName_always(meta) == TRUE

\* get_court_data: let Some(full_name) = meta.full_name
HasFullName(meta) == meta.full_name # None

\* update returned Ok(meta): handle_update is done; get_court_data reads
\* the sessions unless full_name is None, then the reply is rendered
AfterUpdateOk(w, meta, db, out, calls, fail) ==
    IF w.cur.type \in {"Update", "Tick"}
    THEN Done(w, db, out, <<>>, calls)
    ELSE LET reads == HasFullName(meta)
             calls2 == IF reads THEN calls \cup {"get_sessions"} ELSE calls
             data == IF reads
                     THEN [ok |-> TRUE, full_name |-> meta.full_name,
                           sessions |-> get_sessions(db, w.name, w.cur.date)]
                     ELSE ScrapeFail
             reply == IF w.cur.type = "GetSessions"
                      THEN list_sessions(data, w.cur.reference)
                      ELSE subscribed(SubRow(w.cur.sub).name_len, data,
                                      SubRow(w.cur.sub).reference_filter)
         IN  IF reads /\ fail = "get_sessions"
             THEN Done(w, db, out, <<internal_error>>, calls2)
             ELSE IF reply = Panic
                  THEN Res(Panicked(w), db, out, <<>>, calls2)
                  ELSE IF w.cur.type = "GetSessions"
                       THEN Done(w, db, out, <<reply>>, calls2)
                       ELSE MarkSent(w, db, out, reply, calls2, fail)

\* a worker that never forces an update
force_update_never(m) == FALSE

\* the argument of update: handle_update passes the force of the Update
\* message (false for the timer tick), get_court_data passes false
force_update(m) == IF m.type = "Update" THEN m.force ELSE FALSE

\* an update that never trusts the cached reading
CacheHit_never(meta, force, t) == FALSE

\* update: the cached meta is returned if there is one, the update is not
\* forced and the meta is not out of date
CacheHit(meta, force, t) ==
    meta.present /\ ~force /\ ~is_out_of_date(meta.last_update, t)

\* a clock that runs backwards
UtcNow_backwards(t) == 2 * MaxNow - t

\* let last_update = Utc::now(): the wall clock at the instant t of the call
UtcNow(t) == t

\* update up to the scraper call: a fresh unforced reading is returned,
\* otherwise last_update is taken and the scraper is called
UpdateBegin(w, db, calls, fail, t) ==
    LET calls2 == calls \cup {"get_court_meta"}
        meta == db.meta[w.name]
    IN  IF fail = "get_court_meta"
        THEN AfterUpdateErr(w, db, <<>>, calls2)
        ELSE IF CacheHit(meta, force_update(w.cur), t)
             THEN AfterUpdateOk(w, meta, db, <<>>, calls2, fail)
             ELSE Res([w EXCEPT !.pc = "scrape", !.last_update = UtcNow(t)],
                      db, <<>>, <<>>, calls2)

\* process_new_data
process_new_data(w, db, new_data, fail) ==
    IF fail = "old_sessions"
    THEN [ok |-> FALSE, panicked |-> FALSE, msgs |-> <<>>,
          calls |-> {"old_sessions"}]
    ELSE IF fail = "get_confirmed_subscriptions_by_court"
         THEN [ok |-> FALSE, panicked |-> FALSE, msgs |-> <<>>,
               calls |-> {"old_sessions", "get_confirmed_subscriptions_by_court"}]
         ELSE LET r == NotifyLoop(get_confirmed_subscriptions_by_court(db, w.name),
                                  db.sessions[w.name], new_data.sessions, <<>>)
              IN  [ok |-> TRUE, panicked |-> r.panicked, msgs |-> r.msgs,
                   calls |-> {"old_sessions", "get_confirmed_subscriptions_by_court"}]

\* an update that reads the clock when the scraper has returned
persisted_last_update_at_return(w) == now

\* update: the last_update of the new meta is the instant read before the
\* scraper was called
persisted_last_update(w) == w.last_update

\* update from the return of the scraper on
UpdateResume(w, new_data, db, fail) ==
    LET p == IF new_data.ok
             THEN process_new_data(w, db, new_data, fail)
             ELSE [ok |-> TRUE, panicked |-> FALSE, msgs |-> <<>>, calls |-> {}]
        meta == CourtMeta(new_data.full_name, persisted_last_update(w))
        calls2 == p.calls \cup {"update_court_data"}
    IN  IF ~p.ok
        THEN AfterUpdateErr(w, db, p.msgs, p.calls)
        ELSE IF p.panicked
             THEN Res(Panicked(w), db, p.msgs, <<>>, p.calls)
             ELSE IF fail = "update_court_data"
                  THEN AfterUpdateErr(w, db, p.msgs, calls2)
                  ELSE AfterUpdateOk(w, meta,
                                     update_court_data(db, w.name, meta, new_data),
                                     p.msgs, calls2, fail)

\* a lookup that finds a row for every id
SubscriptionExists_always(db, sub) == TRUE

\* get_subscription_by_id returns Some(sub): the row is in the table
SubscriptionExists(db, sub) == db.subs[sub] \in {"unconfirmed", "confirmed"}

\* the body of the recv branch of run for message m
HandleMessage(w, m, db, fail, t) ==
    LET w1 == [w EXCEPT !.cur = m, !.inflight = @ + 1]
    IN  IF m.type = "Close"
        THEN Res([w EXCEPT !.rxClosed = TRUE], db, <<>>, <<>>, {})
        ELSE IF m.type = "GetSessions" /\ ~m.date.star /\ ~ParseDate(m.date).ok
        THEN Done(w1, db, <<>>, <<invalid_date>>, {})
        ELSE IF m.type = "ConfirmSubscription"
        THEN IF fail = "get_subscription_by_id"
             THEN Done(w1, db, <<>>, <<internal_error>>, {"get_subscription_by_id"})
             ELSE IF ~SubscriptionExists(db, m.sub)
                  THEN Done(w1, db, <<>>, <<>>, {"get_subscription_by_id"})
                  ELSE UpdateBegin(w1, db, {"get_subscription_by_id"}, fail, t)
        ELSE UpdateBegin(w1, db, {}, fail, t)

\* ReplyQueue::queue: send fails once the queue task has ended
QueueAccepts == dispPc # "done"

\* the effect of a stretch of a handler of worker a on the state
Apply(a, r, fail) ==
    /\ fail # "none" => (fail \in r.calls /\ dbErrs < MaxDbErrors)
    /\ dbErrs' = IF fail = "none" THEN dbErrs ELSE dbErrs + 1
    /\ actors' = [actors EXCEPT ![a] = r.w]
    /\ dbMeta' = r.db.meta
    /\ dbSessions' = r.db.sessions
    /\ dbSubs' = r.db.subs
    /\ queue' = IF QueueAccepts THEN queue \o r.out ELSE queue
    /\ enqueued' = enqueued \o r.out
    /\ scrapes' = IF r.w.pc = "scrape" /\ actors[a].pc # "scrape"
                  THEN [scrapes EXCEPT ![r.w.name] = @ + 1]
                  ELSE scrapes

\* ids of the request messages whose handling began resp. ended in a step
\* that takes the worker from w to w2 with current message m
LogStarted(a, m) ==
    IF m.id # 0 THEN [started EXCEPT ![a] = Append(@, m.id)] ELSE started

LogCompleted(a, m, w2) ==
    IF m.id # 0 /\ w2.pc = "idle"
    THEN [completed EXCEPT ![a] = Append(@, m.id)]
    ELSE completed

LogReplies(m, rep) ==
    IF m.id # 0 THEN [replies EXCEPT ![m.id] = @ \o rep] ELSE replies

(***************************************************************************)
(* worker.rs: CourtWorker::run                                             *)
(***************************************************************************)
\* the recv branch of the select yields a message; its handler runs up to
\* the scraper call or to its end
WorkerRecv(a) ==
    LET w == actors[a] IN
    /\ Running(w)
    /\ Receivable(w)
    /\ w.mailbox # <<>>
    /\ \E fail \in DbCalls \cup {"none"} :
          LET m == NextMessage(w.mailbox)
              w1 == [w EXCEPT !.mailbox = RestMessages(w.mailbox)]
              r == HandleMessage(w1, m, Db, fail, now)
          IN  /\ Apply(a, r, fail)
              /\ started' = LogStarted(a, m)
              /\ completed' = LogCompleted(a, m, r.w)
              /\ replies' = LogReplies(m, r.rep)
    /\ UNCHANGED <<now, map, rqHeld, mainPc, nextActor, nextMsg, buffer,
                   dispPc, sent, ticks, accepted,
                   lastScrape, notifiedLive,
                   retryVars, pagerVars, timerVars, fnVars, mapVars>>

\* recv yields None: the loop breaks and the task ends
WorkerExit(a) ==
    LET w == actors[a] IN
    /\ Running(w)
    /\ Receivable(w)
    /\ RecvNone(w)
    /\ actors' = [actors EXCEPT ![a].pc = "exited"]
    /\ UNCHANGED <<now, dbMeta, dbSessions, dbSubs, map, rqHeld, mainPc,
                   nextActor, nextMsg, queue, buffer, dispPc, sent, replies,
                   ticks, dbErrs, scrapes, accepted, started, completed,
                   enqueued,
                   lastScrape, notifiedLive,
                   retryVars, pagerVars, timerVars, fnVars, mapVars>>

\* the auto_update branch of the select fires: handle_update(false)
WorkerTick(a) ==
    LET w == actors[a] IN
    /\ Running(w)
    /\ Receivable(w)
    /\ ticks < MaxTicks
    /\ ticks' = ticks + 1
    /\ \E fail \in DbCalls \cup {"none"} :
          Apply(a, HandleMessage(w, MsgTick, Db, fail, now), fail)
    /\ UNCHANGED <<now, map, rqHeld, mainPc, nextActor, nextMsg, buffer,
                   dispPc, sent, replies, accepted, started, completed,
                   lastScrape, notifiedLive,
                   retryVars, pagerVars, timerVars, fnVars, mapVars>>

\* the sessions each subscription was notified of and that are still listed
NotifiedAfter(new_data, out) ==
    [s \in SubIds |->
        LET kept == IF new_data.ok
                    THEN notifiedLive[s] \cap SeqToSet(new_data.sessions)
                    ELSE notifiedLive[s]
        IN  kept \cup UNION {SeqToSet(out[i].msg.items) :
                                i \in {j \in DOMAIN out : out[j].sub = s}}]

\* scraper::get_court_data returns; the handler runs to its end
ScrapeReturn(a) ==
    LET w == actors[a] IN
    /\ w.pc = "scrape"
    /\ \E new_data \in ScrapeOutcomes, fail \in DbCalls \cup {"none"} :
          LET r == UpdateResume(w, new_data, Db, fail)
          IN  /\ Apply(a, r, fail)
              /\ completed' = LogCompleted(a, w.cur, r.w)
              /\ replies' = LogReplies(w.cur, r.rep)
              /\ lastScrape' = new_data
              /\ notifiedLive' = NotifiedAfter(new_data, r.out)
    /\ UNCHANGED <<now, map, rqHeld, mainPc, nextActor, nextMsg, buffer,
                   dispPc, sent, ticks, accepted, started,
                   retryVars, pagerVars, timerVars, fnVars, mapVars>>

(***************************************************************************)
(* courts/mod.rs: Court, Courts, CourtRef                                  *)
(***************************************************************************)
\* a Court whose drop neither sends Close nor releases the sender
DropCourt_forget(w) == w

\* Drop for Court: send Close (ignored when the channel is closed), then
\* the sender is gone
DropCourt(w) ==
    IF ChannelOpen(w)
    THEN [w EXCEPT !.mailbox = Append(@, MsgClose), !.txAlive = FALSE]
    ELSE [w EXCEPT !.txAlive = FALSE]

\* Courts::get: Ok(CourtRef) or Err(InvalidCourtName); no worker is made
CourtsGet(name) == COURT_NAME_REGEX(name)

\* a send_msg that does not look at the result of the first send
SendsToExisting_unchecked(name) == name \in DOMAIN map

\* a registry that never finds an entry
Registered_never(name) == FALSE

\* self.courts.map.get(self.name) is Some(court)
Registered(name) == name \in DOMAIN map

\* CourtRef::send_msg: does the first send, to the registered worker, succeed
SendsToExisting(name) == Registered(name) /\ ChannelOpen(actors[map[name]])

\* a channel that takes a message only when the worker stands at recv
MailboxHasRoom_rendezvous(w) == w.pc = "idle" /\ w.mailbox = <<>>

\* mpsc::unbounded_channel: send never waits for room
MailboxHasRoom(w) == TRUE

\* a send_msg that forgets to register the Court it created
MapInsert_skipped(name, a) == map

\* HashMap::insert
MapInsert(name, a) ==
    [n \in (DOMAIN map) \cup {name} |-> IF n = name THEN a ELSE map[n]]

\* CourtRef::send_msg
SendMsg(name, m) ==
    IF SendsToExisting(name)
    THEN /\ MailboxHasRoom(actors[map[name]])
         /\ actors' = [actors EXCEPT ![map[name]].mailbox = Append(@, m)]
         /\ accepted' = [accepted EXCEPT ![map[name]] = Append(@, m.id)]
         /\ UNCHANGED <<map, nextActor>>
    ELSE /\ nextActor <= MaxActors
         /\ LET new == nextActor
                created == [NewActor(name) EXCEPT !.mailbox = <<m>>]
            IN  /\ actors' = [b \in ActorIds |->
                                IF b = new THEN created
                                ELSE IF name \in DOMAIN map /\ b = map[name]
                                     THEN DropCourt(actors[b])
                                     ELSE actors[b]]
                /\ accepted' = [accepted EXCEPT ![new] = <<m.id>>]
                /\ map' = MapInsert(name, new)
                /\ nextActor' = nextActor + 1

invalid_court_name == Reply("invalid_court_name", <<>>)

\* a command handler of main: get_court! answers an invalid name at once,
\* otherwise one message is sent through the CourtRef
Route(name, m) ==
    /\ mainPc = "running"
    /\ nextMsg <= MaxMsgs
    /\ nextMsg' = nextMsg + 1
    /\ IF CourtsGet(name)
       THEN /\ SendMsg(name, m)
            /\ UNCHANGED replies
       ELSE /\ replies' = [replies EXCEPT ![m.id] = <<invalid_court_name>>]
            /\ UNCHANGED <<actors, accepted, map, nextActor>>

\* CourtRef::get_sessions
ReqGetSessions(name, date) ==
    /\ Route(name, MsgGetSessions(nextMsg, date, <<"*">>))
    /\ UNCHANGED <<now, dbMeta, dbSessions, dbSubs, rqHeld, mainPc, queue,
                   buffer, dispPc, sent, ticks, dbErrs, scrapes,
                   started, completed, enqueued,
                   lastScrape, notifiedLive,
                   retryVars, pagerVars, timerVars, fnVars, mapVars>>

\* CourtRef::update, called with force = true by the ForceUpdate command
ReqUpdate(name) ==
    /\ Route(name, MsgUpdate(nextMsg, TRUE))
    /\ UNCHANGED <<now, dbMeta, dbSessions, dbSubs, rqHeld, mainPc, queue,
                   buffer, dispPc, sent, ticks, dbErrs, scrapes,
                   started, completed, enqueued,
                   lastScrape, notifiedLive,
                   retryVars, pagerVars, timerVars, fnVars, mapVars>>

\* the Subscribe command: add_subscription, then CourtRef::confirm_subscription
ReqSubscribe(s) ==
    /\ dbSubs[s] = "none"
    /\ CourtsGet(SubRow(s).court)
    /\ Route(SubRow(s).court, MsgConfirmSubscription(nextMsg, s))
    /\ dbSubs' = [dbSubs EXCEPT ![s] = "unconfirmed"]
    /\ UNCHANGED <<now, dbMeta, dbSessions, rqHeld, mainPc, queue, buffer,
                   dispPc, sent, ticks, dbErrs, scrapes, started,
                   completed, enqueued,
                   lastScrape, notifiedLive,
                   retryVars, pagerVars, timerVars, fnVars, mapVars>>

\* the Unsubscribe command: remove_subscription
ReqUnsubscribe(s) ==
    /\ mainPc = "running"
    /\ dbSubs[s] \in {"unconfirmed", "confirmed"}
    /\ dbSubs' = [dbSubs EXCEPT ![s] = "removed"]
    /\ UNCHANGED <<now, dbMeta, dbSessions, map, rqHeld, mainPc, actors,
                   nextActor, nextMsg, queue, buffer, dispPc, sent, replies,
                   ticks, dbErrs, scrapes, accepted, started, completed,
                   enqueued,
                   lastScrape, notifiedLive,
                   retryVars, pagerVars, timerVars, fnVars, mapVars>>

\* Courts::shutdown up to its await: the map and the ReplyQueue are dropped
Shutdown ==
    /\ mainPc = "running"
    /\ actors' = [b \in ActorIds |->
                    IF \E n \in DOMAIN map : map[n] = b
                    THEN DropCourt(actors[b]) ELSE actors[b]]
    /\ map' = <<>>
    /\ rqHeld' = FALSE
    /\ mainPc' = "awaiting"
    /\ UNCHANGED <<now, dbMeta, dbSessions, dbSubs, nextActor, nextMsg,
                   queue, buffer, dispPc, sent, replies, ticks, dbErrs,
                   scrapes, accepted, started, completed, enqueued,
                   lastScrape, notifiedLive,
                   retryVars, pagerVars, timerVars, fnVars, mapVars>>

\* Courts::shutdown: queue_join_handle.await returns
ShutdownReturn ==
    /\ mainPc = "awaiting"
    /\ dispPc = "done"
    /\ mainPc' = "returned"
    /\ UNCHANGED <<now, dbMeta, dbSessions, dbSubs, map, rqHeld, actors,
                   nextActor, nextMsg, queue, buffer, dispPc, sent, replies,
                   ticks, dbErrs, scrapes, accepted, started, completed,
                   enqueued,
                   lastScrape, notifiedLive,
                   retryVars, pagerVars, timerVars, fnVars, mapVars>>

(***************************************************************************)
(* reply_queue.rs: the task spawned by ReplyQueue::new                     *)
(***************************************************************************)
\* a queue that closes as soon as the registry drops its ReplyQueue
QueueClosed_registry_only == ~rqHeld

\* every ReplyQueue clone is dropped: the registry's and each worker's
QueueClosed == ~rqHeld /\ \A b \in ActorIds : ~Running(actors[b])

Min(x, y) == IF x < y THEN x ELSE y

\* recv_many returns with up to BatchLimit items
ReplyQueueRecv ==
    /\ dispPc = "recv"
    /\ queue # <<>>
    /\ LET n == Min(BatchLimit, Len(queue))
       IN  /\ buffer' = SubSeq(queue, 1, n)
           /\ queue' = SubSeq(queue, n + 1, Len(queue))
    /\ dispPc' = "send"
    /\ UNCHANGED <<now, dbMeta, dbSessions, dbSubs, map, rqHeld, mainPc,
                   actors, nextActor, nextMsg, sent, replies, ticks, dbErrs,
                   scrapes, accepted, started, completed, enqueued,
                   lastScrape, notifiedLive,
                   retryVars, pagerVars, timerVars, fnVars, mapVars>>

\* a variant in which recv_many gives up as soon as the channel is closed
RecvManyZero_undrained == QueueClosed

\* recv_many returns 0 only when the channel is closed and holds no item
RecvManyZero == queue = <<>> /\ QueueClosed

\* recv_many returns 0: the loop ends
ReplyQueueEnd ==
    /\ dispPc = "recv"
    /\ RecvManyZero
    /\ dispPc' = "done"
    /\ UNCHANGED <<now, dbMeta, dbSessions, dbSubs, map, rqHeld, mainPc,
                   actors, nextActor, nextMsg, queue, buffer, sent, replies,
                   ticks, dbErrs, scrapes, accepted, started, completed,
                   enqueued,
                   lastScrape, notifiedLive,
                   retryVars, pagerVars, timerVars, fnVars, mapVars>>

\* ReplyQueue::send of the next buffered item returns (an error is logged)
ReplyQueueSend ==
    /\ dispPc = "send"
    /\ buffer # <<>>
    /\ sent' = Append(sent, Head(buffer))
    /\ buffer' = Tail(buffer)
    /\ dispPc' = IF Tail(buffer) = <<>> THEN "tick" ELSE "send"
    /\ UNCHANGED <<now, dbMeta, dbSessions, dbSubs, map, rqHeld, mainPc,
                   actors, nextActor, nextMsg, queue, replies, ticks, dbErrs,
                   scrapes, accepted, started, completed, enqueued,
                   lastScrape, notifiedLive,
                   retryVars, pagerVars, timerVars, fnVars, mapVars>>

\* interval.tick() returns
ReplyQueueTick ==
    /\ dispPc = "tick"
    /\ dispPc' = "recv"
    /\ UNCHANGED <<now, dbMeta, dbSessions, dbSubs, map, rqHeld, mainPc,
                   actors, nextActor, nextMsg, queue, buffer, sent, replies,
                   ticks, dbErrs, scrapes, accepted, started, completed,
                   enqueued,
                   lastScrape, notifiedLive,
                   retryVars, pagerVars, timerVars, fnVars, mapVars>>

(***************************************************************************)
(* Time                                                                    *)
(***************************************************************************)
\* Utc::now() at construction: the hour before the cutoff of the second day
StartNow == HoursPerDay + TRESHOLD_TIME - 1

AdvanceClock ==
    /\ now < MaxNow
    /\ now' = now + 1
    /\ UNCHANGED <<dbMeta, dbSessions, dbSubs, map, rqHeld, mainPc, actors,
                   nextActor, nextMsg, queue, buffer, dispPc, sent, replies,
                   ticks, dbErrs, scrapes, accepted, started, completed,
                   enqueued,
                   lastScrape, notifiedLive,
                   retryVars, pagerVars, timerVars, fnVars, mapVars>>

(***************************************************************************)
(* Specification                                                           *)
(***************************************************************************)
\* no call of execute_with_retry is under way
RetryIdle ==
    /\ attempt = 0
    /\ redis_conn = FALSE
    /\ rtPc = "idle"
    /\ rtHist = <<>>
    /\ rtSlept = <<>>
    /\ rtResult = "none"

\* no Paginator exists
PagerIdle ==
    /\ item_limit = 0
    /\ char_limit = 0
    /\ pages = <<>>
    /\ current_page = <<>>
    /\ current_page_len = 0
    /\ pushResults = <<>>

\* the interval of the queue task was just created: its first tick is due
TimerStart ==
    /\ rqNow = 0
    /\ rqDeadline = 0
    /\ sentAt = <<>>
    /\ firstSendErr = FALSE

\* no call of is_out_of_date or of matches was made yet
NoStaleArgs == [last_update |-> -1, now |-> -1]
NoFilterArgs == [called |-> FALSE, filter |-> <<>>, reference |-> <<>>]

FnIdle ==
    /\ staleArgs = NoStaleArgs
    /\ staleRes = [panicked |-> FALSE, value |-> FALSE]
    /\ filterArgs = NoFilterArgs
    /\ filterRes = FALSE

\* CourtMap::new: an empty map; no task has called get yet
MapIdle ==
    /\ courts = <<>>
    /\ spawned = <<>>
    /\ getPc = [c \in Tasks |-> "idle"]
    /\ getName = [c \in Tasks |-> <<>>]
    /\ getCourt = [c \in Tasks |-> 0]

\* Courts::new on an empty database: no worker yet, the queue task spawned
Init ==
    /\ now = StartNow
    /\ dbMeta = [n \in CourtNames |-> NoMeta]
    /\ dbSessions = [n \in CourtNames |-> <<>>]
    /\ dbSubs = [s \in SubIds |-> "none"]
    /\ map = <<>>
    /\ rqHeld = TRUE
    /\ mainPc = "running"
    /\ actors = [b \in ActorIds |-> NoActor]
    /\ nextActor = 1
    /\ nextMsg = 1
    /\ queue = <<>>
    /\ buffer = <<>>
    /\ dispPc = "recv"
    /\ sent = <<>>
    /\ replies = [i \in MsgIds |-> <<>>]
    /\ ticks = 0
    /\ dbErrs = 0
    /\ scrapes = [n \in CourtNames |-> 0]
    /\ accepted = [b \in ActorIds |-> <<>>]
    /\ started = [b \in ActorIds |-> <<>>]
    /\ completed = [b \in ActorIds |-> <<>>]
    /\ enqueued = <<>>
    /\ lastScrape = ScrapeFail
    /\ notifiedLive = [s \in SubIds |-> {}]
    /\ RetryIdle
    /\ PagerIdle
    /\ TimerStart
    /\ FnIdle
    /\ MapIdle

WorkerStep(a) ==
    \/ WorkerRecv(a)
    \/ WorkerExit(a)
    \/ WorkerTick(a)
    \/ ScrapeReturn(a)

ReplyQueueStep ==
    \/ ReplyQueueRecv
    \/ ReplyQueueEnd
    \/ ReplyQueueSend
    \/ ReplyQueueTick

Next ==
    \/ \E a \in ActorIds : WorkerStep(a)
    \/ ReplyQueueStep
    \/ \E name \in NameInputs, date \in DateInputs : ReqGetSessions(name, date)
    \/ \E name \in NameInputs : ReqUpdate(name)
    \/ \E s \in SubIds : ReqSubscribe(s)
    \/ \E s \in SubIds : ReqUnsubscribe(s)
    \/ Shutdown
    \/ ShutdownReturn
    \/ AdvanceClock

Spec == Init /\ [][Next]_vars

(***************************************************************************)
(* reply_queue.rs: the queue task with its interval timer, fed by any      *)
(* holder of a ReplyQueue                                                  *)
(***************************************************************************)
\* Duration::from_secs(1), in units of the clock rqNow
TickPeriod == 1

QueueChats == {101, 102}

\* the n-th item offered: (ChatId, MarkdownString), recipients alternating
QueueItem(n) ==
    [chat_id |-> IF n % 2 = 1 THEN 101 ELSE 102, sub |-> 0, msg |-> n]

\* ReplyQueue::queue by a holder of a ReplyQueue
Produce ==
    /\ rqHeld
    /\ Len(enqueued) < MaxItems
    /\ LET item == QueueItem(Len(enqueued) + 1)
       IN  /\ queue' = IF QueueAccepts THEN Append(queue, item) ELSE queue
           /\ enqueued' = Append(enqueued, item)
    /\ UNCHANGED <<now, dbMeta, dbSessions, dbSubs, map, rqHeld, mainPc,
                   actors, nextActor, nextMsg, buffer, dispPc, sent, replies,
                   ticks, dbErrs, scrapes, accepted, started, completed,
                   lastScrape, notifiedLive,
                   retryVars, pagerVars, timerVars, fnVars, mapVars>>

\* the last ReplyQueue is dropped
ProducersDrop ==
    /\ rqHeld
    /\ rqHeld' = FALSE
    /\ UNCHANGED <<now, dbMeta, dbSessions, dbSubs, map, mainPc, actors,
                   nextActor, nextMsg, queue, buffer, dispPc, sent, replies,
                   ticks, dbErrs, scrapes, accepted, started, completed,
                   enqueued, lastScrape, notifiedLive,
                   retryVars, pagerVars, timerVars, fnVars, mapVars>>

\* an iteration that takes the newest buffered item
BufferNext_newest(b) == b[Len(b)]

\* buffer.iter(): the buffered items from the oldest on
BufferNext(b) == Head(b)
BufferRest(b) == Tail(b)

\* ReplyQueue::send of the next buffered item returns at rqNow, with
\* Ok or with an error that is logged
TimedSend(ok) ==
    /\ dispPc = "send"
    /\ buffer # <<>>
    /\ sent' = Append(sent, BufferNext(buffer))
    /\ sentAt' = Append(sentAt, rqNow)
    /\ firstSendErr' = IF sent = <<>> THEN ~ok ELSE firstSendErr
    /\ buffer' = BufferRest(buffer)
    /\ dispPc' = IF BufferRest(buffer) = <<>> THEN "tick" ELSE "send"
    /\ UNCHANGED <<now, dbMeta, dbSessions, dbSubs, map, rqHeld, mainPc,
                   actors, nextActor, nextMsg, queue, replies, ticks, dbErrs,
                   scrapes, accepted, started, completed, enqueued,
                   lastScrape, notifiedLive,
                   retryVars, pagerVars, rqNow, rqDeadline,
                   fnVars, mapVars>>

\* interval.tick() returns: at once when the deadline has passed, and
\* with MissedTickBehavior::Delay the next deadline is one period later
TimedTick ==
    /\ dispPc = "tick"
    /\ rqNow >= rqDeadline
    /\ dispPc' = "recv"
    /\ rqDeadline' = rqNow + TickPeriod
    /\ UNCHANGED <<now, dbMeta, dbSessions, dbSubs, map, rqHeld, mainPc,
                   actors, nextActor, nextMsg, queue, buffer, sent, replies,
                   ticks, dbErrs, scrapes, accepted, started, completed,
                   enqueued, lastScrape, notifiedLive,
                   retryVars, pagerVars, rqNow, sentAt, firstSendErr,
                   fnVars, mapVars>>

\* time passes
TimePasses ==
    /\ rqNow < MaxTime
    /\ rqNow' = rqNow + 1
    /\ UNCHANGED <<sysVars, retryVars, pagerVars, rqDeadline, sentAt, firstSendErr,
                   fnVars, mapVars>>

QueueNext ==
    \/ Produce
    \/ ProducersDrop
    \/ ReplyQueueRecv
    \/ ReplyQueueEnd
    \/ \E ok \in BOOLEAN : TimedSend(ok)
    \/ TimedTick
    \/ TimePasses

QueueSpec == Init /\ [][QueueNext]_vars

(***************************************************************************)
(* court/database.rs: Database::execute_with_retry                         *)
(***************************************************************************)
MAX_RETRIES == 5
BackoffBaseMs == 50
UsizeBits == 64

RECURSIVE Pow2(_)
Pow2(n) == IF n = 0 THEN 1 ELSE 2 * Pow2(n - 1)

\* kinds of redis::RedisError: two of the kinds classified Retry, two of
\* those classified Reconnect and one of the others
ErrorKinds == {"TryAgain", "BusyLoadingError", "IoError",
               "AuthenticationFailed", "ResponseError"}

\* get_retry_strategy
get_retry_strategy(kind) ==
    IF kind \in {"TryAgain", "MasterDown", "ClusterDown", "BusyLoadingError",
                 "MasterNameNotFoundBySentinel",
                 "NoValidReplicasFoundBySentinel"}
    THEN "Retry"
    ELSE IF kind \in {"ParseError", "AuthenticationFailed",
                      "ClusterConnectionNotFound", "IoError"}
         THEN "Reconnect"
         ELSE "NoRetry"

\* a backoff computed from the counter before it is incremented
Backoff_before_increment(n) == BackoffBaseMs * Pow2(n - 1)

\* 1 << n on a usize overflows when n is not smaller than its width
ShiftOverflows(n) == n >= UsizeBits

\* Duration::from_millis(50 * (1 << attempt)), for a shift that does not
\* overflow
Backoff(n) == BackoffBaseMs * Pow2(n)

\* a guard that lets the pass after the last retry retry once more
RetryAllowed_inclusive(n) == n <= MAX_RETRIES

\* the guard of the retrying arm: attempt < MAX_RETRIES
RetryAllowed(n) == n < MAX_RETRIES

\* a caller invokes execute_with_retry; an earlier call may have left a
\* connection
RetryCall ==
    /\ rtPc = "idle"
    /\ rtPc' = "loop"
    /\ attempt' = 0
    /\ redis_conn' \in BOOLEAN
    /\ UNCHANGED <<rtHist, rtSlept, rtResult, sysVars, pagerVars, timerVars, fnVars, mapVars>>

\* one pass of the loop: get_connection, the operation, and the match on
\* the result up to the sleep or the return; connected tells whether
\* get_connection gave a connection, res is Ok or the kind of the error of
\* get_connection resp. of the operation
RetryPass(connected, res) ==
    /\ rtPc = "loop"
    /\ redis_conn => connected
    /\ ~connected => res # "Ok"
    /\ rtHist' = Append(rtHist, [had_conn |-> redis_conn,
                                 connected |-> connected, res |-> res])
    /\ IF res = "Ok"
       THEN /\ rtResult' = "Ok"
            /\ rtPc' = "returned"
            /\ redis_conn' = connected
            /\ UNCHANGED <<attempt, rtSlept>>
       ELSE LET s == get_retry_strategy(res)
            IN  IF s \in {"Reconnect", "Retry"} /\ RetryAllowed(attempt)
                THEN /\ attempt' = attempt + 1
                     /\ redis_conn' = IF s = "Reconnect" THEN FALSE ELSE connected
                     /\ rtSlept' = Append(rtSlept, Backoff(attempt + 1))
                     /\ rtPc' = "sleep"
                     /\ UNCHANGED rtResult
                ELSE /\ rtResult' = res
                     /\ rtPc' = "returned"
                     /\ redis_conn' = connected
                     /\ UNCHANGED <<attempt, rtSlept>>
    /\ UNCHANGED <<sysVars, pagerVars, timerVars, fnVars, mapVars>>

\* tokio::time::sleep(backoff) returns
RetryWake ==
    /\ rtPc = "sleep"
    /\ rtPc' = "loop"
    /\ UNCHANGED <<attempt, redis_conn, rtHist, rtSlept, rtResult,
                   sysVars, pagerVars, timerVars, fnVars, mapVars>>

RetryNext ==
    \/ RetryCall
    \/ \E connected \in BOOLEAN, res \in ErrorKinds \cup {"Ok"} :
          RetryPass(connected, res)
    \/ RetryWake

RetrySpec == Init /\ [][RetryNext]_vars

(***************************************************************************)
(* messages.rs: Paginator. An item is given by its len_parsed; the pages   *)
(* hold the lengths of their items.                                        *)
(***************************************************************************)
MaxPushes == 5

\* the limits a Paginator is built with, and the lengths of the items pushed
ItemLimits == {2, ItemLimit}
CharLimits == {40, CharLimit}
ItemLens == {1, 12, 2040}

\* page_nr: "[Nachricht k/n]"
PageNrFixedLen == 13
page_nr(k, n) ==
    [kind |-> "page_nr", k |-> k, n |-> n,
     len |-> PageNrFixedLen + Digits(k) + Digits(n)]

Item(len) == [kind |-> "item", k |-> 0, n |-> 0, len |-> len]

\* the join string "\n\n"
Separator == [kind |-> "join", k |-> 0, n |-> 0, len |-> JoinLen]

\* Paginator::new
PagerNew(il, cl) ==
    /\ item_limit = 0
    /\ item_limit' = il
    /\ char_limit' = cl
    /\ pages' = <<>>
    /\ current_page' = <<>>
    /\ current_page_len' = 0
    /\ pushResults' = <<>>
    /\ UNCHANGED <<sysVars, retryVars, timerVars, fnVars, mapVars>>

initial_page_len == PageNrMaxLen

\* current_page_len_with, for a page whose length so far is page_len
current_page_len_with(page_len, len) == page_len + JoinLen + len

\* the condition of try_push_to_current_page
TryPushOk(page, page_len, len) ==
    /\ Len(page) < item_limit
    /\ current_page_len_with(page_len, len) < char_limit

\* Paginator::push
PagerPush(len) ==
    /\ item_limit > 0
    /\ Len(pushResults) < MaxPushes
    /\ IF TryPushOk(current_page, current_page_len, len)
       THEN /\ current_page' = Append(current_page, len)
            /\ current_page_len' = current_page_len_with(current_page_len, len)
            /\ pages' = pages
            /\ pushResults' = Append(pushResults, [len |-> len, ok |-> TRUE])
       ELSE /\ pages' = Append(pages, current_page)
            /\ IF TryPushOk(<<>>, initial_page_len, len)
               THEN /\ current_page' = <<len>>
                    /\ current_page_len' =
                          current_page_len_with(initial_page_len, len)
                    /\ pushResults' =
                          Append(pushResults, [len |-> len, ok |-> TRUE])
               ELSE /\ current_page' = <<>>
                    /\ current_page_len' = initial_page_len
                    /\ pushResults' =
                          Append(pushResults, [len |-> len, ok |-> FALSE])
    /\ UNCHANGED <<item_limit, char_limit, sysVars, retryVars, timerVars, fnVars, mapVars>>

\* a numbering that starts at 0
PageNumber_zero_based(k) == k

\* get_pages: the page at index k of enumerate is numbered k + 1
PageNumber(k) == k + 1

\* MarkdownString::join and +=: the parts of a content, and its length
RECURSIVE LenParsed(_)
LenParsed(parts) ==
    IF parts = <<>> THEN 0 ELSE Head(parts).len + LenParsed(Tail(parts))

\* a join that writes the items of a page last to first
Join_reversed(page) ==
    [i \in 1..(IF page = <<>> THEN 0 ELSE 2 * Len(page) - 1) |->
        IF i % 2 = 1 THEN Item(page[Len(page) + 1 - ((i + 1) \div 2)])
        ELSE Separator]

Join(page) ==
    [i \in 1..(IF page = <<>> THEN 0 ELSE 2 * Len(page) - 1) |->
        IF i % 2 = 1 THEN Item(page[(i + 1) \div 2]) ELSE Separator]

\* Paginator::get_pages, called on the current state
get_pages ==
    LET all == Append(pages, current_page)
        n_pages == Len(all)
    IN  [i \in DOMAIN all |->
            LET content == Join(all[i])
            IN  IF n_pages > 1
                THEN content \o <<Separator,
                                  page_nr(PageNumber(i - 1), n_pages)>>
                ELSE content]

PagerNext ==
    \/ \E il \in ItemLimits, cl \in CharLimits : PagerNew(il, cl)
    \/ \E len \in ItemLens : PagerPush(len)

PagerSpec == Init /\ [][PagerNext]_vars

(***************************************************************************)
(* worker.rs: is_out_of_date called at any instant for any last_update     *)
(***************************************************************************)
MaxInstant == 150

Instants == 0..MaxInstant

\* one call, from the state in which none was made
StaleCall(last_update, t) ==
    /\ staleArgs = NoStaleArgs
    /\ staleArgs' = [last_update |-> last_update, now |-> t]
    /\ staleRes' = IF is_out_of_date_panics(t)
                   THEN [panicked |-> TRUE, value |-> FALSE]
                   ELSE [panicked |-> FALSE,
                         value |-> is_out_of_date(last_update, t)]
    /\ UNCHANGED <<sysVars, retryVars, pagerVars, timerVars, filterArgs,
                   filterRes, mapVars>>

StaleNext == \E last_update \in Instants, t \in Instants : StaleCall(last_update, t)

StaleSpec == Init /\ [][StaleNext]_vars

(***************************************************************************)
(* messages.rs: ReferenceFilter::new(filter).matches(reference); a string  *)
(* is the sequence of its characters                                       *)
(***************************************************************************)
MaxFilterLen == 3
MaxReferenceLen == 3

StringsUpTo(chars, n) == UNION {[1..k -> chars] : k \in 0..n}

FilterAB12 == <<"A", "B", "*", "1", "2", "?">>

\* references as the scraper stores them: the inner text of the cell, with
\* the line feeds it contains
FilterInputs == StringsUpTo({"A", "*", "?"}, MaxFilterLen) \cup {FilterAB12}
ReferenceInputs ==
    StringsUpTo({"A", "B", "\n"}, MaxReferenceLen)
    \cup {<<"A", "B", "-", "x", "-", "1", "2", "Z">>,
          <<"A", "B", "-", "x", "-", "1", "3", "Z">>,
          <<"x", "A", "B", "-", "x", "-", "1", "2", "Z">>,
          <<"A", "B", "-", "x", "-", "1", "2", "Z", "x">>}

\* one call, from the state in which none was made
FilterCall(filter, reference) ==
    /\ ~filterArgs.called
    /\ filterArgs' = [called |-> TRUE, filter |-> filter,
                      reference |-> reference]
    /\ filterRes' = ReferenceFilterMatches(filter, reference)
    /\ UNCHANGED <<sysVars, retryVars, pagerVars, timerVars, staleArgs,
                   staleRes, mapVars>>

FilterNext ==
    \E filter \in FilterInputs, reference \in ReferenceInputs :
        FilterCall(filter, reference)

FilterSpec == Init /\ [][FilterNext]_vars

(***************************************************************************)
(* court_map.rs: CourtMap::get, called by concurrent tasks                 *)
(***************************************************************************)
\* validate_regex "^[a-zA-Z0-9\\-]+$"
validate_name(name) ==
    /\ Len(name) >= 1
    /\ \A i \in 1..Len(name) : name[i] \in NameCharClass

MapNames == {NameVG, NameAG, NameUnderscore}

\* get is called: an invalid name returns None at once, otherwise the task
\* goes on to courts.read().await
GetCall(c, name) ==
    /\ getPc[c] = "idle"
    /\ getName' = [getName EXCEPT ![c] = name]
    /\ getPc' = [getPc EXCEPT ![c] = IF validate_name(name) THEN "read"
                                      ELSE "returned"]
    /\ UNCHANGED <<courts, spawned, getCourt,
                   sysVars, retryVars, pagerVars, timerVars, fnVars>>

\* under the read lock: an entry is cloned and returned; without an entry
\* the read guard is dropped at the end of its block, Court::new spawns a
\* worker, and the task goes on, holding no lock, to courts.write().await
GetRead(c) ==
    /\ getPc[c] = "read"
    /\ IF getName[c] \in DOMAIN courts
       THEN /\ getCourt' = [getCourt EXCEPT ![c] = courts[getName[c]]]
            /\ getPc' = [getPc EXCEPT ![c] = "returned"]
            /\ UNCHANGED spawned
       ELSE /\ spawned' = Append(spawned, getName[c])
            /\ getCourt' = [getCourt EXCEPT ![c] = Len(spawned) + 1]
            /\ getPc' = [getPc EXCEPT ![c] = "insert"]
    /\ UNCHANGED <<courts, getName,
                   sysVars, retryVars, pagerVars, timerVars, fnVars>>

\* under the write lock: courts.insert(name, court); Some(court2) is returned
GetInsert(c) ==
    /\ getPc[c] = "insert"
    /\ courts' = [n \in (DOMAIN courts) \cup {getName[c]} |->
                     IF n = getName[c] THEN getCourt[c] ELSE courts[n]]
    /\ getPc' = [getPc EXCEPT ![c] = "returned"]
    /\ UNCHANGED <<spawned, getName, getCourt,
                   sysVars, retryVars, pagerVars, timerVars, fnVars>>

MapNext ==
    \/ \E c \in Tasks, name \in MapNames : GetCall(c, name)
    \/ \E c \in Tasks : GetRead(c)
    \/ \E c \in Tasks : GetInsert(c)

MapSpec == Init /\ [][MapNext]_vars

(***************************************************************************)
(* Two courts: requests for NameVG and NameAG, each with its own worker    *)
(***************************************************************************)
TwoCourts == {NameVG, NameAG}

TwoCourtsNext ==
    \/ \E a \in ActorIds : WorkerRecv(a)
    \/ \E a \in ActorIds : WorkerTick(a)
    \/ \E a \in ActorIds : ScrapeReturn(a)
    \/ \E name \in TwoCourts : ReqGetSessions(name, DateStar)
    \/ \E name \in TwoCourts : ReqUpdate(name)

TwoCourtsSpec == Init /\ [][TwoCourtsNext]_vars

(***************************************************************************)
(* Subscribers of NameVG while NameAG is updated as well: the subscriptions *)
(* are confirmed by the worker of NameVG, whose timer starts its update    *)
(* cycles, and Update requests start those of the worker of NameAG         *)
(***************************************************************************)
SubscribersNext ==
    \/ \E a \in ActorIds : WorkerRecv(a)
    \/ \E a \in ActorIds : WorkerTick(a)
    \/ \E a \in ActorIds : ScrapeReturn(a)
    \/ \E s \in SubIds : ReqSubscribe(s)
    \/ ReqUpdate(NameAG)
    \/ AdvanceClock

SubscribersSpec == Init /\ [][SubscribersNext]_vars

\* the runtime polls every spawned task, a returned scraper call resumes its
\* handler, and shutdown resumes when the queue task it awaits has ended
Fairness ==
    /\ \A a \in ActorIds : /\ WF_vars(WorkerRecv(a))
                            /\ WF_vars(WorkerExit(a))
                            /\ WF_vars(ScrapeReturn(a))
    /\ WF_vars(ReplyQueueStep)
    /\ WF_vars(ShutdownReturn)

FairSpec == Spec /\ Fairness

(***************************************************************************)
(* Properties                                                              *)
(***************************************************************************)
IsPrefix(p, q) == Len(p) <= Len(q) /\ SubSeq(q, 1, Len(p)) = p

Exists(b) == actors[b].pc # "none"

\* C1: in no reachable state does one worker have two handlers (refresh or
\* read cycles for a message or a timer tick) executing at the same time
C1_OneCycleAtATime ==
    \A b \in ActorIds : actors[b].inflight <= 1

\* C1 witness: a worker is in the middle of a cycle (awaiting the scraper)
\* while another message waits in its mailbox
C1_Witness ==
    \E b \in ActorIds :
        /\ actors[b].pc = "scrape"
        /\ actors[b].inflight = 1
        /\ \E i \in DOMAIN actors[b].mailbox : actors[b].mailbox[i].id # 0

\* C5: a worker handles its messages in the order in which its mailbox
\* accepted them, and the handling of a message begins only when the
\* handling of every earlier message has ended
C5_Fifo ==
    \A b \in ActorIds :
        /\ IsPrefix(started[b], accepted[b])
        /\ IsPrefix(completed[b], started[b])
        /\ Len(started[b]) - Len(completed[b]) <= 1

\* C5 witness: a worker has handled two messages to their end
C5_Witness ==
    \E b \in ActorIds : Len(completed[b]) >= 2

\* C6: a send_msg that finds the registered worker's channel closed creates
\* exactly one worker, delivers the message once, to the new worker and not
\* to the old one, and registers the new worker under the name
C6_Recreation ==
    [][\A n \in DOMAIN map :
          LET old == map[n] IN
          (/\ ~ChannelOpen(actors[old])
           /\ nextMsg' = nextMsg + 1
           /\ \E b \in ActorIds : /\ accepted'[b] # accepted[b]
                                  /\ actors'[b].name = n)
          => /\ nextActor' = nextActor + 1
             /\ ~Exists(nextActor)
             /\ actors'[nextActor].pc = "idle"
             /\ actors'[nextActor].name = n
             /\ Len(actors'[nextActor].mailbox) = 1
             /\ actors'[nextActor].mailbox[1].id = nextMsg
             /\ accepted'[nextActor] = <<nextMsg>>
             /\ \A b \in ActorIds \ {nextActor} :
                   /\ accepted'[b] = accepted[b]
                   /\ actors'[b].mailbox = actors[b].mailbox
             /\ n \in DOMAIN map'
             /\ map'[n] = nextActor]_vars

\* C6 witness: a worker that died is off the registry, and the worker that
\* replaced it under the same name has accepted a message
C6_Witness ==
    \E b, c \in ActorIds :
        /\ actors[b].pc = "panicked"
        /\ c > b
        /\ actors[c].name = actors[b].name
        /\ actors[c].name \in DOMAIN map
        /\ map[actors[c].name] = c
        /\ accepted[c] # <<>>

AlnumChars == LowerChars \cup UpperChars \cup DigitChars

\* a name of 1 to 63 alphanumeric or hyphen characters
ValidNamePattern(name) ==
    /\ Len(name) >= 1
    /\ Len(name) <= 63
    /\ \A i \in 1..Len(name) : name[i] \in AlnumChars \cup {"-"}

\* C7: Courts::get rejects every name that is not 1 to 63 alphanumeric or
\* hyphen characters, every key of the registry and the name of every
\* worker ever created is such a name
C7_ValidNames ==
    /\ \A name \in NameInputs : ~ValidNamePattern(name) => ~CourtsGet(name)
    /\ \A name \in DOMAIN map : ValidNamePattern(name)
    /\ \A b \in ActorIds : Exists(b) => ValidNamePattern(actors[b].name)

\* C7 witness: a request with an invalid name was answered as invalid and
\* a worker is registered
C7_Witness ==
    /\ \E i \in MsgIds : replies[i] = <<invalid_court_name>>
    /\ DOMAIN map # {}

\* C8: when Courts::shutdown has returned, everything any worker passed to
\* the ReplyQueue has been handed to the bot and the queue is empty
C8_NothingLostAtShutdown ==
    mainPc = "returned" => /\ queue = <<>>
                           /\ buffer = <<>>
                           /\ sent = enqueued

\* C8 witness: shutdown has returned after notifications were queued
C8_Witness ==
    /\ mainPc = "returned"
    /\ enqueued # <<>>
    /\ \E b \in ActorIds : actors[b].pc = "exited" /\ completed[b] # <<>>

\* the requests sent so far were all GetSessions to a valid name, there is
\* at least one, and each has been answered
AllGetSessionsAnswered ==
    /\ nextMsg > 1
    /\ \A sub \in SubIds : dbSubs[sub] = "none"
    /\ \A i \in 1..(nextMsg - 1) :
          /\ Len(replies[i]) = 1
          /\ replies[i][1] # invalid_court_name

\* the first cutoff after instant t
NextCutoff(t) ==
    IF t % HoursPerDay < TRESHOLD_TIME
    THEN (t \div HoursPerDay) * HoursPerDay + TRESHOLD_TIME
    ELSE (t \div HoursPerDay + 1) * HoursPerDay + TRESHOLD_TIME

C3_AtMostOnce ==
    [][\A i \in (Len(enqueued) + 1)..Len(enqueued') :
          SeqToSet(enqueued'[i].msg.items)
              \cap notifiedLive[enqueued'[i].sub] = {}]_vars

\* the sessions of the scrape that match the filter of sub and are not in
\* the cached list
NewMatching(sub, scraped, cached) ==
    {x \in SeqToSet(scraped) :
        /\ ReferenceFilterMatches(SubRow(sub).reference_filter, x.reference)
        /\ x \notin SeqToSet(cached)}

\* C4: in an update cycle whose scrape succeeded, every notification queued
\* is for a confirmed subscription of the resource and lists exactly the
\* scraped sessions that match its filter and are not in the cached list,
\* which are not none; no subscription gets two; and a cycle that neither
\* fails at the database nor panics queues one for every confirmed
\* subscription that has such sessions
C4_ExactDiff ==
    [][\A a \in ActorIds :
          (actors[a].pc = "scrape" /\ actors'[a].pc # "scrape" /\ lastScrape'.ok)
          => LET new == [i \in 1..(Len(enqueued') - Len(enqueued)) |->
                            enqueued'[Len(enqueued) + i]]
                 name == actors[a].name
                 exp(sub) == NewMatching(sub, lastScrape'.sessions, dbSessions[name])
             IN  /\ \A i \in DOMAIN new :
                       /\ dbSubs[new[i].sub] = "confirmed"
                       /\ SubRow(new[i].sub).court = name
                       /\ new[i].chat_id = SubRow(new[i].sub).chat_id
                       /\ SeqToSet(new[i].msg.items) = exp(new[i].sub)
                       /\ Len(new[i].msg.items) = Cardinality(exp(new[i].sub))
                       /\ exp(new[i].sub) # {}
                 /\ \A i, j \in DOMAIN new : new[i].sub = new[j].sub => i = j
                 /\ (dbErrs' = dbErrs /\ actors'[a].pc # "panicked")
                    => \A sub \in SubIds :
                          (/\ dbSubs[sub] = "confirmed"
                           /\ SubRow(sub).court = name
                           /\ exp(sub) # {})
                          => \E i \in DOMAIN new : new[i].sub = sub]_vars

\* C4 witness: with SessA and SessB cached, a scrape that adds SessC was
\* notified as exactly SessC, and a scrape that adds nothing was processed
C4_Witness ==
    /\ \E i \in DOMAIN enqueued : enqueued[i].msg.items = <<SessC>>
    /\ lastScrape = ScrapeOk(<<SessA, SessB, SessC>>)
    /\ dbSessions[NameVG] = <<SessA, SessB, SessC>>

\* C9: once shutdown has dropped the handles and awaits the queue task,
\* it eventually returns
C9_ShutdownReturns ==
    (mainPc = "awaiting") ~> (mainPc = "returned")

\* C9 witness: shutdown returned after a worker that had work left ran to
\* its end and the queue task ended
C9_Witness ==
    /\ mainPc = "returned"
    /\ dispPc = "done"
    /\ \E b \in ActorIds : actors[b].pc = "exited" /\ Len(completed[b]) >= 1
    /\ \A b \in ActorIds : ~Running(actors[b])

\* C10: a worker whose handle was dropped and whose task has ended has
\* handled every message its mailbox accepted
C10_DrainedBeforeExit ==
    \A b \in ActorIds :
        (Exists(b) /\ ~Running(actors[b]) /\ ~actors[b].txAlive)
        => completed[b] = accepted[b]

\* C11: the task of a worker ends only by the break of run, taken when
\* recv yields None, that is when the mailbox is closed and empty
C11_OnlyClosureEndsTask ==
    [][\A b \in ActorIds :
          (Running(actors[b]) /\ ~Running(actors'[b]))
          => /\ actors[b].pc = "idle"
             /\ RecvNone(actors[b])
             /\ actors'[b].pc = "exited"]_vars

\* C12: a call of execute_with_retry makes at most 6 passes, and a call
\* whose every pass failed with an error classified Retry returns after
\* exactly 6 passes (1 + 5 retries), with that error
C12_SixAttempts ==
    /\ Len(rtHist) <= 6
    /\ (/\ rtPc = "returned"
        /\ \A i \in DOMAIN rtHist :
              rtHist[i].res \in {"TryAgain", "BusyLoadingError"})
       => /\ Len(rtHist) = 6
          /\ Len(rtSlept) = 5
          /\ rtResult = rtHist[6].res

\* C12 witness: a call whose six passes all failed with TryAgain, on a
\* connection that was there, has returned that error
C12_Witness ==
    /\ rtPc = "returned"
    /\ Len(rtHist) = 6
    /\ \A i \in DOMAIN rtHist : rtHist[i].res = "TryAgain" /\ rtHist[i].had_conn
    /\ rtResult = "TryAgain"

\* C13: the queue task ends only when every ReplyQueue is dropped and
\* everything that was queued has been handed to the bot, and once it has
\* ended nothing more is handed over
C13_DrainThenExit ==
    [][/\ (dispPc # "done" /\ dispPc' = "done")
          => /\ ~rqHeld
             /\ \A b \in ActorIds : ~Running(actors[b])
             /\ queue = <<>>
             /\ buffer = <<>>
             /\ sent = enqueued
       /\ dispPc = "done"
          => /\ dispPc' = "done"
             /\ sent' = sent
             /\ queue' = queue]_vars

\* C13 witness: the task ended after it handed over more than one batch
C13_Witness ==
    /\ dispPc = "done"
    /\ Len(sent) > 20
    /\ sent = enqueued

\* C14: of the items handed to the bot, any two that are 20 or more places
\* apart are at least one tick period apart in time
C14_RateBound ==
    \A i, j \in DOMAIN sentAt :
        j >= i + 20 => sentAt[j] - sentAt[i] >= 1

\* the subsequence of the items of seq that are addressed to chat
ForChat(seq, chat) == SelectSeq(seq, LAMBDA x : x.chat_id = chat)

\* C15: for every recipient, the items handed to the bot are, in order, the
\* first of the items that were queued for it
C15_RecipientOrder ==
    \A chat \in QueueChats :
        IsPrefix(ForChat(sent, chat), ForChat(enqueued, chat))

\* C15 witness: the first delivery failed, and a later item for its recipient
\* was handed over in a later batch
C15_Witness ==
    /\ firstSendErr
    /\ \E j \in DOMAIN sent : /\ j > 20
                              /\ sent[j].chat_id = sent[1].chat_id

(***************************************************************************)
(* C16: confirmation_sent of a subscription changes at most once, from     *)
(* false to true, and only in the step in which the worker of the          *)
(* subscription's court finishes handling ConfirmSubscription for that id  *)
(* with no database error and with the confirmation as its reply; it never *)
(* goes back to false (the row can only be deleted).                       *)
(***************************************************************************)
\* worker a ends, in this step, its handling of ConfirmSubscription for s
FinishesConfirm(a, s) ==
    LET w == actors[a] IN
    /\ w.name = SubRow(s).court
    /\ \/ /\ w.pc = "idle"
          /\ w.mailbox # <<>>
          /\ Head(w.mailbox).type = "ConfirmSubscription"
          /\ Head(w.mailbox).sub = s
          /\ actors'[a].mailbox = Tail(w.mailbox)
          /\ replies'[Head(w.mailbox).id] # replies[Head(w.mailbox).id]
          /\ replies'[Head(w.mailbox).id][Len(replies'[Head(w.mailbox).id])].kind
                 \in {"subscribed", "subscribed_unreachable"}
       \/ /\ w.pc = "scrape"
          /\ w.cur.type = "ConfirmSubscription"
          /\ w.cur.sub = s
          /\ replies'[w.cur.id] # replies[w.cur.id]
          /\ replies'[w.cur.id][Len(replies'[w.cur.id])].kind
                 \in {"subscribed", "subscribed_unreachable"}
    /\ actors'[a].pc = "idle"
    /\ dbErrs' = dbErrs

C16_ConfirmedOnce ==
    [][\A s \in SubIds :
          /\ dbSubs[s] = "confirmed" => dbSubs'[s] \in {"confirmed", "removed"}
          /\ (dbSubs[s] # "confirmed" /\ dbSubs'[s] = "confirmed")
                => /\ dbSubs[s] = "unconfirmed"
                   /\ \E a \in ActorIds : FinishesConfirm(a, s)]_vars

\* a subscription was confirmed with a list of sessions as the reply
C16_Witness ==
    \E s \in SubIds, m \in MsgIds :
        /\ dbSubs[s] = "confirmed"
        /\ replies[m] # <<>>
        /\ replies[m][1].kind = "subscribed"
        /\ replies[m][1].items # <<>>

(***************************************************************************)
(* C17: when the scraper call of an update cycle fails, the cycle leaves   *)
(* the stored sessions of the court as they are and queues no              *)
(* notification; unless a database call fails, it stores a meta with       *)
(* full_name = None and the last_update taken before the scraper call, and *)
(* update returns that meta: the handler ends normally, and a reader gets  *)
(* the "no information" answer instead of internal_error.                  *)
(***************************************************************************)
\* the scraper call of worker a returns in this step, and it failed
ScrapeFailedAt(a) ==
    /\ actors[a].pc = "scrape"
    /\ actors'[a].pc # "scrape"
    /\ lastScrape' = ScrapeFail

C17_ScrapeFailure ==
    [][\A a \in ActorIds :
          ScrapeFailedAt(a) =>
            LET w == actors[a] IN
            /\ dbSessions' = dbSessions
            /\ enqueued' = enqueued
            /\ queue' = queue
            /\ actors'[a].pc = "idle"
            /\ dbErrs' = dbErrs =>
                  /\ dbMeta'[w.name] = CourtMeta(None, w.last_update)
                  /\ w.cur.type = "GetSessions" =>
                        replies'[w.cur.id] = Append(replies[w.cur.id],
                                                    Reply("no_info", <<>>))
                  /\ w.cur.type = "ConfirmSubscription" =>
                        replies'[w.cur.id] =
                            Append(replies[w.cur.id],
                                   Reply("subscribed_unreachable", <<>>))
                  /\ w.cur.type \in {"Update", "Tick"} =>
                        replies' = replies]_vars

\* after a successful scrape a later one failed: the meta says unreachable
\* and the sessions of the earlier scrape are still stored
C17_Witness ==
    /\ dbMeta[NameVG].present
    /\ dbMeta[NameVG].full_name = None
    /\ dbMeta[NameVG].last_update > StartNow
    /\ dbSessions[NameVG] # <<>>
    /\ lastScrape = ScrapeFail

(***************************************************************************)
(* C18: the sessions stored for a court are always the complete list of    *)
(* the last successful scrape that was stored for it, or empty before the  *)
(* first: they start empty, and they change only in the step in which the  *)
(* court's worker stores a successful scrape, to exactly the scraped list  *)
(* and together with the new meta; a step that stores the meta of a        *)
(* successful scrape leaves exactly the scraped list behind it.            *)
(***************************************************************************)
\* worker a stores, in this step, the successful scrape lastScrape'
StoresScrape(a) ==
    LET w == actors[a] IN
    /\ w.pc = "scrape"
    /\ actors'[a].pc # "scrape"
    /\ lastScrape'.ok
    /\ dbMeta'[w.name] = CourtMeta(lastScrape'.full_name, w.last_update)
    /\ dbSessions'[w.name] = lastScrape'.sessions

C18_WholeList ==
    /\ \A n \in DOMAIN dbSessions : dbSessions[n] = <<>>
    /\ [][\A n \in DOMAIN dbSessions :
            /\ dbSessions'[n] # dbSessions[n] =>
                  \E a \in ActorIds : actors[a].name = n /\ StoresScrape(a)
            /\ (dbMeta'[n] # dbMeta[n] /\ dbMeta'[n].full_name # None) =>
                  \E a \in ActorIds : actors[a].name = n /\ StoresScrape(a)]_vars

\* the stored list of three sessions, of which the third was notified, was
\* replaced by a later scrape that lists two
C18_Witness ==
    /\ \E i \in DOMAIN enqueued : enqueued[i].msg.items = <<SessC>>
    /\ lastScrape = ScrapeOk(<<SessA, SessB>>)
    /\ dbSessions[NameVG] = <<SessA, SessB>>
    /\ dbMeta[NameVG].full_name = FullName

(***************************************************************************)
(* C19: every page get_pages yields holds at most item_limit items and is, *)
(* with its items, the joins between them and the page number when there   *)
(* is one, at most char_limit long, the first page like every later one    *)
(* (stated for a Paginator every push on which returned Ok).               *)
(***************************************************************************)
ItemsOf(content) == SelectSeq(content, LAMBDA x : x.kind = "item")

C19_PageBounds ==
    (item_limit > 0 /\ \A i \in DOMAIN pushResults : pushResults[i].ok)
    => \A k \in DOMAIN get_pages :
          /\ Len(ItemsOf(get_pages[k])) <= item_limit
          /\ LenParsed(get_pages[k]) <= char_limit

(***************************************************************************)
(* C20: with an item limit of 2 and a character limit that no page of two  *)
(* of the pushed items reaches, 5 pushes give 3 pages of 2, 2 and 1 items; *)
(* whenever get_pages yields n > 1 pages, page k ends with the page number *)
(* k/n, for every k in 1..n, and a single page carries no page number.     *)
(***************************************************************************)
\* no page of item_limit of the pushed items reaches the character limit
CharLimitNeverBinds ==
    \A i \in DOMAIN pushResults :
        initial_page_len + item_limit * (JoinLen + pushResults[i].len)
            < char_limit

PagesOfTwo ==
    (item_limit = 2 /\ Len(pushResults) = 5 /\ CharLimitNeverBinds)
    => /\ Len(get_pages) = 3
       /\ Len(ItemsOf(get_pages[1])) = 2
       /\ Len(ItemsOf(get_pages[2])) = 2
       /\ Len(ItemsOf(get_pages[3])) = 1
       /\ \A i \in DOMAIN pushResults : pushResults[i].ok

C20_PagesAndMarkers ==
    item_limit > 0 =>
       /\ PagesOfTwo
       /\ LET n == Len(get_pages)
          IN  \A k \in 1..n :
                 LET content == get_pages[k]
                 IN  /\ n > 1 => /\ content # <<>>
                                 /\ content[Len(content)].kind = "page_nr"
                                 /\ content[Len(content)].k = k
                                 /\ content[Len(content)].n = n
                     /\ \A j \in DOMAIN content :
                           content[j].kind = "page_nr" => n > 1 /\ j = Len(content)

\* five items of two different lengths were pushed with an item limit of 2
\* and gave three numbered pages
C20_Witness ==
    /\ item_limit = 2
    /\ Len(pushResults) = 5
    /\ CharLimitNeverBinds
    /\ \E i, j \in DOMAIN pushResults : pushResults[i].len # pushResults[j].len
    /\ Len(get_pages) = 3
    /\ get_pages[3][Len(get_pages[3])] = page_nr(3, 3)

(***************************************************************************)
(* C21: with C the most recent instant, up to now, at which the local      *)
(* clock showed 08:00 (today's if the local time is 08:00 or later, else   *)
(* yesterday's), is_out_of_date(last_update) returns true for every        *)
(* last_update before C and false for every last_update at or after C.     *)
(***************************************************************************)
\* the local clock shows TRESHOLD_TIME at instant u
ShowsCutoff(u) == with_timezone(u) % HoursPerDay = TRESHOLD_TIME

MostRecentCutoff(t) ==
    CHOOSE u \in (t - HoursPerDay - 2)..t :
        /\ ShowsCutoff(u)
        /\ \A v \in (u + 1)..t : ~ShowsCutoff(v)

C21_StaleIffBeforeCutoff ==
    staleArgs # NoStaleArgs =>
        /\ ~staleRes.panicked
        /\ staleRes.value
              = (staleArgs.last_update < MostRecentCutoff(staleArgs.now))

\* a call in summer time, before 08:00, with a last_update after the cutoff
\* of the day before: the reading is fresh
C21_Witness ==
    /\ staleArgs # NoStaleArgs
    /\ DstOffset(staleArgs.now) = 1
    /\ with_timezone(staleArgs.now) % HoursPerDay < TRESHOLD_TIME
    /\ staleArgs.last_update < staleArgs.now
    /\ ~staleRes.value

(***************************************************************************)
(* C22: the reference filter matches the whole reference, with * standing  *)
(* for any run of characters (the empty one too), ? for exactly one        *)
(* character and every other character for itself: AB*12? matches          *)
(* AB-x-12Z and not AB-x-13Z, and characters before or after the matched   *)
(* part make the reference fail.                                           *)
(***************************************************************************)
\* the match as the claim describes it
RECURSIVE Glob(_, _, _, _)
Glob(p, i, r, j) ==
    IF i > Len(p)
    THEN j > Len(r)
    ELSE IF p[i] = "*"
         THEN Glob(p, i + 1, r, j) \/ (j <= Len(r) /\ Glob(p, i, r, j + 1))
         ELSE /\ j <= Len(r)
              /\ p[i] = "?" \/ r[j] = p[i]
              /\ Glob(p, i + 1, r, j + 1)

C22_GlobSemantics ==
    filterArgs.called =>
        filterRes = Glob(filterArgs.filter, 1, filterArgs.reference, 1)

(***************************************************************************)
(* C23: a scraper call that does not return stalls only the worker of its  *)
(* court: while a worker waits for the scraper, the registry can send a    *)
(* message for every court (the send does not wait), and the idle worker   *)
(* of every other court can take its next message and its timer tick.      *)
(***************************************************************************)
C23_HungScrapeIsolated ==
    \A a \in ActorIds :
        actors[a].pc = "scrape" =>
          /\ \A court \in TwoCourts :
                (mainPc = "running" /\ nextMsg <= MaxMsgs
                                    /\ nextActor <= MaxActors)
                => /\ ENABLED ReqUpdate(court)
                   /\ ENABLED ReqGetSessions(court, DateStar)
          /\ \A b \in ActorIds :
                (actors[b].name # actors[a].name /\ actors[b].pc = "idle")
                => /\ actors[b].mailbox # <<>> => ENABLED WorkerRecv(b)
                   /\ ticks < MaxTicks => ENABLED WorkerTick(b)

\* while the worker of NameVG waits for the scraper, for the message sent
\* first, the worker of NameAG has finished the message sent after it
C23_Witness ==
    \E a, b \in ActorIds :
        /\ actors[a].name = NameVG
        /\ actors[a].pc = "scrape"
        /\ started[a] = <<1>>
        /\ actors[b].name = NameAG
        /\ completed[b] = <<2>>

(***************************************************************************)
(* C24: a request message gets one reply or none: when a worker has        *)
(* processed a GetSessions message, reply_fn was called exactly once, with *)
(* the listing, the invalid-date message or the internal-error message;    *)
(* when it has processed a ConfirmSubscription message, reply_fn was       *)
(* called at most once; no reply_fn is ever called twice.                  *)
(***************************************************************************)
\* the message whose handling worker a ends in this step
Ending(a) ==
    IF actors[a].pc = "scrape" THEN actors[a].cur ELSE Head(actors[a].mailbox)

C24_OneReplyOrNone ==
    [][/\ \A m \in MsgIds : Len(replies'[m]) <= 1
       /\ \A a \in ActorIds :
             completed'[a] # completed[a] =>
                LET msg == Ending(a) IN
                /\ completed'[a] = Append(completed[a], msg.id)
                /\ msg.type = "GetSessions" =>
                      /\ Len(replies'[msg.id]) = 1
                      /\ replies'[msg.id][1].kind \in
                            {"sessions", "no_info", "invalid_date",
                             "internal_error"}
                /\ msg.type = "ConfirmSubscription" =>
                      \A i \in DOMAIN replies'[msg.id] :
                          replies'[msg.id][i].kind \in
                            {"subscribed", "subscribed_unreachable",
                             "internal_error"}]_vars

\* a ConfirmSubscription whose subscription was deleted in time was
\* processed without a reply, and the GetSessions after it got its reply
C24_Witness ==
    \E a \in ActorIds, s \in SubIds :
        /\ completed[a] = <<1, 2>>
        /\ dbSubs[s] = "removed"
        /\ replies[1] = <<>>
        /\ Len(replies[2]) = 1
        /\ replies[2][1].kind = "sessions"

(***************************************************************************)
(* C25: a cache hit leaves everything as it is: when a handler calls       *)
(* update(false) while the stored meta of its court is not out of date,    *)
(* the scraper is not called, neither meta nor sessions are written and    *)
(* no notification is queued; the handler goes on with the stored meta.    *)
(***************************************************************************)
\* the stored meta of court n is there and is not older than the cutoff
FreshMeta(n) ==
    dbMeta[n].present /\ dbMeta[n].last_update >= MostRecentCutoff(now)

\* worker a takes, in this step, a message that leads to update(false)
TakesUnforced(a) ==
    /\ actors[a].pc = "idle"
    /\ actors[a].mailbox # <<>>
    /\ started'[a] # started[a]
    /\ Head(actors[a].mailbox).type \in {"GetSessions", "ConfirmSubscription"}

\* the auto_update tick of some worker is handled in this step
TakesTick == ticks' # ticks

C25_CacheHit ==
    [][\A a \in ActorIds :
          ((TakesUnforced(a) \/ (TakesTick /\ Running(actors[a])))
             /\ FreshMeta(actors[a].name))
          => /\ scrapes' = scrapes
             /\ \A b \in ActorIds : actors'[b].pc # "scrape"
                                      \/ actors[b].pc = "scrape"
             /\ dbMeta' = dbMeta
             /\ dbSessions' = dbSessions
             /\ enqueued' = enqueued
             /\ queue' = queue
             /\ (TakesUnforced(a) /\ dbErrs' = dbErrs
                   /\ Head(actors[a].mailbox).type = "GetSessions"
                   /\ Head(actors[a].mailbox).date = DateStar)
                => replies'[Head(actors[a].mailbox).id] =
                     <<IF dbMeta[actors[a].name].full_name = None
                       THEN Reply("no_info", <<>>)
                       ELSE Reply("sessions", dbSessions[actors[a].name])>>]_vars

\* the second of two GetSessions requests was answered from the cache:
\* one scraper call, two listings
C25_Witness ==
    /\ scrapes[NameVG] = 1
    /\ nextMsg = 3
    /\ \A m \in 1..2 : /\ Len(replies[m]) = 1
                        /\ replies[m][1].kind = "sessions"
                        /\ replies[m][1].items # <<>>
    /\ ticks = 1

(***************************************************************************)
(* C26: update(true) does not look at the age of the stored meta: a cycle  *)
(* that is forced, or whose stored meta is absent or out of date, calls    *)
(* the scraper, once (stated for the cycles that read the meta without a   *)
(* database error: the others end before the scraper call).                *)
(***************************************************************************)
\* a message whose handler calls update
CallsUpdate(m) ==
    \/ m.type = "Update"
    \/ m.type = "GetSessions" /\ (m.date.star \/ ParseDate(m.date).ok)
    \/ m.type = "ConfirmSubscription"
          /\ dbSubs[m.sub] \in {"unconfirmed", "confirmed"}

\* worker a takes, in this step, message m from its channel
Takes(a, m) ==
    /\ actors[a].pc = "idle"
    /\ actors[a].mailbox # <<>>
    /\ started'[a] # started[a]
    /\ m = Head(actors[a].mailbox)

C26_ForcedScrapes ==
    [][\A n \in CourtNames :
          /\ \A a \in ActorIds :
                (/\ actors[a].name = n
                 /\ Takes(a, Head(actors[a].mailbox))
                 /\ CallsUpdate(Head(actors[a].mailbox))
                 /\ \/ /\ Head(actors[a].mailbox).type = "Update"
                       /\ Head(actors[a].mailbox).force
                    \/ ~FreshMeta(n)
                 /\ dbErrs' = dbErrs)
                => /\ actors'[a].pc = "scrape"
                   /\ scrapes'[n] = scrapes[n] + 1
          /\ (TakesTick /\ ~FreshMeta(n) /\ dbErrs' = dbErrs
                 /\ \E a \in ActorIds : /\ actors[a].name = n
                                         /\ Running(actors[a]))
             => scrapes'[n] = scrapes[n] + 1
          /\ scrapes'[n] # scrapes[n] =>
                /\ scrapes'[n] = scrapes[n] + 1
                /\ \E a \in ActorIds : /\ actors[a].name = n
                                        /\ actors[a].pc = "idle"
                                        /\ actors'[a].pc = "scrape"]_vars

\* a forced update called the scraper although the meta stored by the
\* first call was not out of date
C26_Witness ==
    /\ scrapes[NameVG] = 2
    /\ now = StartNow
    /\ dbErrs = 0
    /\ ticks = 0
    /\ dbMeta[NameVG].present

(***************************************************************************)
(* C27: the last_update an update cycle stores is the instant read before  *)
(* the scraper call began, not the instant at which it returned: a worker  *)
(* that enters the scraper call holds the instant of that step, and every  *)
(* meta stored is stored by a worker returning from the scraper, with the  *)
(* instant it holds, whether the scrape succeeded or failed and however    *)
(* much later it returned.                                                 *)
(***************************************************************************)
C27_LastUpdateAtStart ==
    [][/\ \A a \in ActorIds :
             (actors[a].pc # "scrape" /\ actors'[a].pc = "scrape")
             => actors'[a].last_update = now
       /\ \A a \in ActorIds :
             (actors[a].pc = "scrape" /\ actors'[a].pc = "scrape")
             => actors'[a].last_update = actors[a].last_update
       /\ \A n \in CourtNames :
             dbMeta'[n] # dbMeta[n] =>
                \E a \in ActorIds :
                    /\ actors[a].name = n
                    /\ actors[a].pc = "scrape"
                    /\ actors'[a].pc # "scrape"
                    /\ dbMeta'[n].last_update = actors[a].last_update
                    /\ dbMeta'[n].last_update <= now]_vars

\* the one cycle so far has stored its meta, and the stored last_update is
\* the instant at which its scraper call began, an hour ago
C27_Witness ==
    /\ dbMeta[NameVG].present
    /\ dbMeta[NameVG].last_update < now
    /\ \A a \in ActorIds : actors[a].pc # "scrape"
    /\ scrapes[NameVG] = 1
    /\ ticks = 0
    /\ nextMsg = 2
    /\ completed[1] = <<1>>
    /\ now = StartNow + 1

(***************************************************************************)
(* C28: no gap for a confirmed subscription: every session that matches    *)
(* its filter and is part of a successful scrape stored after the          *)
(* subscription was created has been listed in its confirmation reply or   *)
(* in a notification queued for it, also when the confirmation was handled *)
(* while the website was unreachable. Checked at the step that stores a    *)
(* successful scrape while the subscription is confirmed.                  *)
(***************************************************************************)
\* the sessions told to subscription s: those of the notifications queued
\* for it and those of the confirmation replies
Told(s, enq, reps) ==
    UNION {SeqToSet(enq[i].msg.items) : i \in {j \in DOMAIN enq : enq[j].sub = s}}
    \cup UNION {SeqToSet(reps[m][i].items) :
                  m \in {k \in MsgIds : reps[k] # <<>>}, i \in {1}}

C28_NoGap ==
    [][\A a \in ActorIds, s \in SubIds :
          (/\ StoresScrape(a)
           /\ dbSessions'[actors[a].name] = lastScrape'.sessions
           /\ SubRow(s).court = actors[a].name
           /\ dbSubs[s] = "confirmed")
          => \A i \in DOMAIN lastScrape'.sessions :
                ReferenceFilterMatches(SubRow(s).reference_filter,
                                       lastScrape'.sessions[i].reference)
                => lastScrape'.sessions[i] \in Told(s, enqueued', replies')]_vars

(***************************************************************************)
(* C29: an update cycle that returns a database error leaves the stored    *)
(* meta and sessions of the court as they were and queues no notification. *)
(* Checked for the cycles of handle_update (Update message or timer tick), *)
(* whose only database calls are those of update: a step from the return   *)
(* of the scraper in which a database call failed changes neither the      *)
(* stored meta nor the stored sessions nor the notifications queued.       *)
(***************************************************************************)
C29_ErrorLeavesNothing ==
    [][\A a \in ActorIds :
          (/\ actors[a].pc = "scrape"
           /\ actors'[a].pc # "scrape"
           /\ actors[a].cur.type \in {"Update", "Tick"}
           /\ dbErrs' # dbErrs)
          => /\ dbMeta' = dbMeta
             /\ dbSessions' = dbSessions
             /\ enqueued' = enqueued]_vars

(***************************************************************************)
(* C30: notifications of new sessions go only to confirmed subscriptions   *)
(* of the court that is updated: every notification queued in a step is    *)
(* queued by a worker that ends an update cycle in that step, for a        *)
(* subscription of that worker's court that was confirmed when the step    *)
(* read the subscriptions.                                                 *)
(***************************************************************************)
C30_OnlyConfirmedOfCourt ==
    [][\A i \in (Len(enqueued) + 1)..Len(enqueued') :
          \E a \in ActorIds :
             /\ actors[a].pc = "scrape"
             /\ actors'[a].pc # "scrape"
             /\ enqueued'[i].sub \in SubIds
             /\ dbSubs[enqueued'[i].sub] = "confirmed"
             /\ SubRow(enqueued'[i].sub).court = actors[a].name]_vars

\* the confirmation of subscription 2 ended in a database error, so it has
\* stayed unconfirmed; subscription 1 was confirmed after it and a later
\* cycle queued a notification for subscription 1 alone, with a session
\* that the filter of subscription 2 matches as well
C30_Witness ==
    /\ replies[1] = <<internal_error>>
    /\ dbSubs[2] = "unconfirmed"
    /\ dbSubs[1] = "confirmed"
    /\ enqueued # <<>>
    /\ \A i \in DOMAIN enqueued : enqueued[i].sub = 1
    /\ \E i \in DOMAIN enqueued : \E x \in SeqToSet(enqueued[i].msg.items) :
          ReferenceFilterMatches(SubRow(2).reference_filter, x.reference)

(***************************************************************************)
(* C31: a ConfirmSubscription for a subscription that is no longer in the  *)
(* table is ignored: when the lookup itself does not fail, the step that   *)
(* takes the message gives no reply, calls no scraper, queues nothing and  *)
(* leaves the database as it was, and the worker is back in its loop with  *)
(* the rest of its channel.                                                *)
(***************************************************************************)
C31_DeletedIgnored ==
    [][\A a \in ActorIds :
          (/\ Takes(a, Head(actors[a].mailbox))
           /\ Head(actors[a].mailbox).type = "ConfirmSubscription"
           /\ dbSubs[Head(actors[a].mailbox).sub] \notin {"unconfirmed", "confirmed"}
           /\ dbErrs' = dbErrs)
          => /\ replies' = replies
             /\ scrapes' = scrapes
             /\ enqueued' = enqueued
             /\ dbMeta' = dbMeta /\ dbSessions' = dbSessions /\ dbSubs' = dbSubs
             /\ actors'[a].pc = "idle"
             /\ Running(actors'[a])
             /\ actors'[a].mailbox = Tail(actors[a].mailbox)]_vars

\* subscription 1 was removed before its confirmation was handled; the
\* worker has handled the message, without a reply and without a scrape
C31_Witness ==
    /\ dbSubs[1] = "removed"
    /\ dbSubs[2] = "none"
    /\ nextMsg = 2
    /\ dbErrs = 0
    /\ \E a \in ActorIds : completed[a] = <<1>> /\ actors[a].pc = "idle"
    /\ replies[1] = <<>>
    /\ \A n \in CourtNames : scrapes[n] = 0

(***************************************************************************)
(* C32: workers are created by a send, never by Courts::get alone: the     *)
(* number of workers changes only in a step that routes a message; a       *)
(* request with a name that get rejects creates nothing; a send to a name  *)
(* whose registered worker has an open channel creates nothing and appends *)
(* the message to that worker's channel; any other send creates exactly    *)
(* one worker, gives it the message and registers it under the name.       *)
(***************************************************************************)
\* the step appends message id to what worker b has accepted, and to no other
SentTo(b, id) ==
    /\ accepted'[b] = Append(accepted[b], id)
    /\ \A c \in ActorIds \ {b} : accepted'[c] = accepted[c]

C32_LazyCreation ==
    [][/\ nextActor' # nextActor => nextMsg' = nextMsg + 1
       /\ (nextMsg' # nextMsg /\ replies' # replies)
            => actors' = actors /\ nextActor' = nextActor /\ map' = map
       /\ (nextMsg' # nextMsg /\ replies' = replies)
            => \E b \in ActorIds :
                 LET n == actors'[b].name IN
                 /\ SentTo(b, nextMsg)
                 /\ IF n \in DOMAIN map /\ ChannelOpen(actors[map[n]])
                    THEN /\ b = map[n]
                         /\ nextActor' = nextActor
                         /\ map' = map
                         /\ Len(actors'[b].mailbox) = Len(actors[b].mailbox) + 1
                         /\ actors'[b].mailbox[Len(actors'[b].mailbox)].id = nextMsg
                         /\ \A c \in ActorIds \ {b} : actors'[c] = actors[c]
                    ELSE /\ b = nextActor
                         /\ nextActor' = nextActor + 1
                         /\ actors[b] = NoActor
                         /\ ChannelOpen(actors'[b])
                         /\ Len(actors'[b].mailbox) = 1
                         /\ actors'[b].mailbox[1].id = nextMsg
                         /\ DOMAIN map' = DOMAIN map \cup {n}
                         /\ map'[n] = b
                         /\ \A k \in DOMAIN map \ {n} : map'[k] = map[k]]_vars

\* the first message to NameVG created worker 1, the second was appended
\* to the channel of that worker and created none
C32_Witness ==
    /\ nextMsg = 3
    /\ nextActor = 2
    /\ NameVG \in DOMAIN map
    /\ map[NameVG] = 1
    /\ accepted[1] = <<1, 2>>
    /\ Len(actors[1].mailbox) = 2

(***************************************************************************)
(* C33: the registry keeps one live worker per court: of the workers       *)
(* created for one name at most one has an open channel; an entry of the   *)
(* map is the worker created last for its name; and a worker that is not   *)
(* the entry of its name (replaced, or dropped with the map) is given no   *)
(* further message.                                                        *)
(***************************************************************************)
\* the workers created so far for name n
ActorsOf(n) == {a \in ActorIds : actors[a].pc # "none" /\ actors[a].name = n}

C33_OneOpenPerName ==
    /\ \A n \in CourtNames : \A a, b \in ActorsOf(n) :
          (ChannelOpen(actors[a]) /\ ChannelOpen(actors[b])) => a = b
    /\ \A n \in DOMAIN map :
          /\ map[n] \in ActorsOf(n)
          /\ \A a \in ActorsOf(n) : a <= map[n]

C33_ReplacedGetsNothing ==
    [][\A a \in ActorIds :
          (/\ actors[a].pc # "none"
           /\ \/ actors[a].name \notin DOMAIN map
              \/ map[actors[a].name] # a)
          => /\ accepted'[a] = accepted[a]
             /\ Len(actors'[a].mailbox) <= Len(actors[a].mailbox)]_vars

C33_Registry == []C33_OneOpenPerName /\ C33_ReplacedGetsNothing

\* the first worker of NameVG panicked and the next message created a
\* second one, which is the entry of the map and the only open one
C33_Witness ==
    /\ ActorsOf(NameVG) = {1, 2}
    /\ actors[1].pc = "panicked"
    /\ NameVG \in DOMAIN map
    /\ map[NameVG] = 2
    /\ ChannelOpen(actors[2])
    /\ accepted[2] # <<>>

(***************************************************************************)
(* C34: concurrent calls of CourtMap::get with the same valid name create  *)
(* one worker for that name, however they interleave, and every call       *)
(* returns the Court of that one worker.                                   *)
(***************************************************************************)
\* the workers spawned for name n
SpawnedFor(n) == {i \in DOMAIN spawned : spawned[i] = n}

C34_OneWorkerPerName ==
    \A n \in MapNames :
       /\ Cardinality(SpawnedFor(n)) <= 1
       /\ \A c, d \in Tasks :
             (/\ getPc[c] = "returned" /\ getName[c] = n
              /\ getPc[d] = "returned" /\ getName[d] = n
              /\ validate_name(n))
             => /\ getCourt[c] = getCourt[d]
                /\ getCourt[c] \in SpawnedFor(n)

(***************************************************************************)
(* C35: a failed scrape is cached like a successful one. While the meta    *)
(* stored by a cycle whose scrape failed (full_name None) is not older     *)
(* than the most recent cutoff, the scraper is called for that court only  *)
(* by a forced Update, which always calls it; a GetSessions request is     *)
(* answered that there is no information and a confirmation that the       *)
(* website is unreachable, both without a scraper call (the replies are    *)
(* stated for handlers without a database error).                          *)
(***************************************************************************)
\* the stored meta of court n records a failed scrape and is not out of date
FailedMeta(n) == FreshMeta(n) /\ dbMeta[n].full_name = None

\* worker a takes, in this step, a forced Update
TakesForced(a) ==
    /\ Takes(a, Head(actors[a].mailbox))
    /\ Head(actors[a].mailbox).type = "Update"
    /\ Head(actors[a].mailbox).force

C35_FailureCached ==
    [][\A n \in CourtNames : FailedMeta(n) =>
          /\ scrapes'[n] # scrapes[n]
                => \E a \in ActorIds : actors[a].name = n /\ TakesForced(a)
          /\ \A a \in ActorIds :
                (actors[a].name = n /\ TakesForced(a) /\ dbErrs' = dbErrs)
                => scrapes'[n] = scrapes[n] + 1
          /\ \A a \in ActorIds :
                (/\ actors[a].name = n
                 /\ TakesUnforced(a)
                 /\ CallsUpdate(Head(actors[a].mailbox))
                 /\ dbErrs' = dbErrs)
                => replies'[Head(actors[a].mailbox).id] =
                     <<IF Head(actors[a].mailbox).type = "GetSessions"
                       THEN Reply("no_info", <<>>)
                       ELSE Reply("subscribed_unreachable", <<>>)>>]_vars

\* the scrape of the first request failed; the second request was answered
\* from the stored meta, without a second scraper call
C35_Witness ==
    /\ scrapes[NameVG] = 1
    /\ ~lastScrape.ok
    /\ FailedMeta(NameVG)
    /\ dbErrs = 0
    /\ ticks = 0
    /\ nextMsg = 3
    /\ replies[2] \in {<<Reply("no_info", <<>>)>>,
                       <<Reply("subscribed_unreachable", <<>>)>>}
    /\ \E a \in ActorIds : completed[a] = <<1, 2>>

(***************************************************************************)
(* C36: the last_update stored for a court never decreases: whatever a     *)
(* step stores as the meta of a court, forced or not, after a failed or a  *)
(* successful scrape, its last_update is not smaller than the one that was *)
(* stored before. The clock of the model never steps back.                 *)
(***************************************************************************)
C36_LastUpdateMonotone ==
    [][\A n \in CourtNames :
          /\ dbMeta[n].present => dbMeta'[n].present
          /\ (dbMeta[n].present /\ dbMeta'[n].present)
                => dbMeta'[n].last_update >= dbMeta[n].last_update]_vars

\* two unforced cycles have stored their meta: that of the request, and an
\* hour later, past the cutoff, that of the timer tick, or the other way round
C36_Witness ==
    /\ scrapes[NameVG] = 2
    /\ dbErrs = 0
    /\ ticks = 1
    /\ nextMsg = 2
    /\ replies[1] # <<>>
    /\ \A a \in ActorIds : actors[a].pc \in {"none", "idle"}
    /\ dbMeta[NameVG].present
    /\ dbMeta[NameVG].last_update = StartNow + 1

(***************************************************************************)
(* C37: in execute_with_retry a failure classified Reconnect discards the  *)
(* cached connection, a failure classified Retry leaves a cached           *)
(* connection in place, and a successful operation leaves it in place:     *)
(* stated for every pass of the loop.                                      *)
(***************************************************************************)
\* a pass of the loop is made in this step, with the result res
Passes(res) ==
    /\ rtPc = "loop"
    /\ Len(rtHist') = Len(rtHist) + 1
    /\ rtHist'[Len(rtHist')].res = res

C37_ReconnectDiscards ==
    [][\A res \in ErrorKinds \cup {"Ok"} : Passes(res) =>
          /\ (res # "Ok" /\ get_retry_strategy(res) = "Reconnect")
                => ~redis_conn'
          /\ (res # "Ok" /\ get_retry_strategy(res) = "Retry")
                => (redis_conn => redis_conn')
          /\ res = "Ok" => redis_conn']_vars

(***************************************************************************)
(* C38: a failure that is neither a transient condition of the server nor  *)
(* a failure of the connection, such as an authentication failure, is not  *)
(* retried: the pass that meets it returns that error at once, without a   *)
(* backoff and without counting an attempt, also after earlier retries.    *)
(***************************************************************************)
\* the kinds of the model that are neither transient conditions of the
\* server (TryAgain, BusyLoadingError) nor failures of the connection (IoError)
NeitherTransientNorConnection == {"AuthenticationFailed", "ResponseError"}

C38_NoRetryReturnsAtOnce ==
    [][\A res \in NeitherTransientNorConnection : Passes(res) =>
          /\ rtPc' = "returned"
          /\ rtResult' = res
          /\ rtSlept' = rtSlept
          /\ attempt' = attempt]_vars

(***************************************************************************)
(* C39: the backoff slept before a retry is 50 ms times 2 to the power of  *)
(* the attempt counter, which is incremented before: the delays of one     *)
(* call are 100, 200, 400, 800, 1600 ms in this order, each the double of  *)
(* the one before, at most five of them, and the shift never overflows.    *)
(***************************************************************************)
BackoffSchedule == <<100, 200, 400, 800, 1600>>

C39_Delays ==
    /\ Len(rtSlept) <= MAX_RETRIES
    /\ Len(rtSlept) = attempt
    /\ ~ShiftOverflows(attempt)
    /\ \A i \in DOMAIN rtSlept :
          /\ rtSlept[i] = BackoffSchedule[i]
          /\ rtSlept[i] = BackoffBaseMs * Pow2(i)
          /\ i > 1 => rtSlept[i] = 2 * rtSlept[i - 1]

\* a call has slept all five delays
C39_Witness ==
    /\ rtSlept = BackoffSchedule
    /\ attempt = MAX_RETRIES
    /\ rtPc = "returned"

(***************************************************************************)
(* C40: the Paginator neither loses, duplicates nor reorders items: the    *)
(* items of the pages get_pages yields, taken page after page, are exactly *)
(* the items whose push returned Ok, in the order in which they were       *)
(* pushed; an item whose push was rejected is on no page.                  *)
(***************************************************************************)
\* the lengths of the items of pages k..Len(ps) of ps, page after page
RECURSIVE ItemsFrom(_, _)
ItemsFrom(ps, k) ==
    IF k > Len(ps)
    THEN <<>>
    ELSE [i \in DOMAIN ItemsOf(ps[k]) |-> ItemsOf(ps[k])[i].len]
         \o ItemsFrom(ps, k + 1)

\* the lengths of the items whose push returned Ok, in push order
Pushed ==
    LET ok == SelectSeq(pushResults, LAMBDA r : r.ok)
    IN  [i \in DOMAIN ok |-> ok[i].len]

C40_NoLossNoReorder ==
    item_limit > 0 => ItemsFrom(get_pages, 1) = Pushed

\* four items of different lengths lie on two pages, in push order, and a
\* fifth was rejected as too long
C40_Witness ==
    /\ item_limit = 2
    /\ Len(pushResults) = 5
    /\ Len(Pushed) = 4
    /\ Pushed[1] # Pushed[2]
    /\ Pushed[3] # Pushed[4]
    /\ Len(get_pages) >= 2
    /\ ItemsFrom(get_pages, 1) = Pushed
====
